---- MODULE Spec2Model ----
(***************************************************************************)
(* Model of the podcast pipeline of anylangpodpy.                          *)
(*                                                                         *)
(*  - Spec      : the job orchestrator of app/routers/podcast.py           *)
(*                (generate_podcast, get_podcast_status and the background *)
(*                task generate_podcast_background), with the wall clock   *)
(*                that request ids are derived from.                       *)
(*  - FetchSpec : one call of GDELTService._make_request, the retrying     *)
(*                fetcher, with the proxy pool it leases proxies from.     *)
(*  - AppSpec, ProxySpec, SearchSpec, NewsSpec, TimelineSpec : the proxy   *)
(*                probe, the ProxyManager and the calls of GDELTService    *)
(*                built on the fetcher.                                    *)
(*  - ScrapeSpec: one coroutine on a Scraper of services/scraper.py, with  *)
(*                the event loop's clock; ShareSpec: two background tasks  *)
(*                on the scraper of the shared PodcastGenerator.           *)
(*  - RetrySpec : fetch_content called with any max_retries.               *)
(*  - IdSpec    : the request ids of two submits.                          *)
(*  - AudioSpec : the jobs with the files the TTS writes to output/.       *)
(*  - FetchLive, JobLive : the fetcher and the jobs under fair scheduling. *)
(*                                                                         *)
(* Strings are sequences of one-character strings; Python's None of an     *)
(* Optional value is the empty tuple and a present value v is <<v>>.       *)
(***************************************************************************)
EXTENDS Integers, Sequences, FiniteSets, TLC

\* ------------------------------------------------------------------ bounds
\* number of submit calls in a behaviour
MaxSubmits == 2
\* the wall clock runs over the seconds 0..MaxTime
MaxTime == 1
\* number of calls made on one ProxyManager
MaxPoolCalls == 2
\* number of terms joined by AND/OR in a search query
MaxTerms == 2
\* largest max_results of a search_news call
MaxResults == 1
\* the ticks of the event loop's clock in one second
TicksPerSecond == 2
\* number of calls one coroutine makes on a scraper
MaxCalls == 2
\* largest number of urls, titles or articles handed to the scraper at once
MaxPairs == 2
\* largest max_retries a caller passes to fetch_content
MaxRetriesArg == 4

\* --------------------------------------------------------------- optionals
None == <<>>

Some(v) == <<v>>

\* ----------------------------------------------------------------- strings
Upper == {"A", "B"}

Lower == {"a", "b"}

Digits == {"0", "1", "2", "3", "4", "5", "6", "7", "8", "9"}

Whitespace == {" ", "\n"}

\* str.lower() on one character
lower(c) == CASE c = "A" -> "a" [] c = "B" -> "b" [] OTHER -> c

\* the character class [a-zA-Z0-9] of the request-id regular expression
IsAlnum(c) == c \in Upper \cup Lower \cup Digits

\* re.sub(r'[^a-zA-Z0-9]', '_', keyword.lower())
safe_keyword(k) ==
    [i \in 1..Len(k) |-> IF IsAlnum(lower(k[i])) THEN lower(k[i]) ELSE "_"]

\* one decimal digit
Digit(n) == CASE n = 0 -> "0" [] n = 1 -> "1" [] n = 2 -> "2" [] n = 3 -> "3"
              [] n = 4 -> "4" [] n = 5 -> "5" [] n = 6 -> "6" [] n = 7 -> "7"
              [] n = 8 -> "8" [] OTHER -> "9"

\* mutant: the format has no seconds, strftime("%Y%m%d_%H%M")
Timestamp_no_seconds(t) == <<"2", "_", "0">>

\* datetime.now().strftime("%Y%m%d_%H%M%S"): two fixed-width digit fields
\* around an underscore; one character stands for each field, the date being
\* the same day throughout and the time of day the clock's second
Timestamp(t) == <<"2", "_", Digit(t)>>

\* f"{safe_keyword}_{timestamp}"
RequestId(k, t) == safe_keyword(k) \o <<"_">> \o Timestamp(t)

\* s.startswith(p)
StartsWith(s, p) == Len(s) >= Len(p) /\ SubSeq(s, 1, Len(p)) = p

\* s.replace(p, ""): leftmost non-overlapping occurrences are removed
RECURSIVE Remove(_, _)
Remove(s, p) ==
    IF Len(s) < Len(p) THEN s
    ELSE IF StartsWith(s, p) THEN Remove(SubSeq(s, Len(p) + 1, Len(s)), p)
    ELSE <<Head(s)>> \o Remove(Tail(s), p)

\* index of the first occurrence of character c in s, 0 if there is none
RECURSIVE IndexOf(_, _)
IndexOf(s, c) ==
    IF s = <<>> THEN 0
    ELSE IF Head(s) = c THEN 1
    ELSE LET r == IndexOf(Tail(s), c) IN IF r = 0 THEN 0 ELSE r + 1

\* s.split(c): the list of the pieces between the separators
RECURSIVE Split(_, _)
Split(s, c) ==
    LET i == IndexOf(s, c)
    IN  IF i = 0 THEN <<s>>
        ELSE <<SubSeq(s, 1, i - 1)>> \o Split(SubSeq(s, i + 1, Len(s)), c)

\* c.join(parts)
RECURSIVE Join(_, _)
Join(parts, c) ==
    IF parts = <<>> THEN <<>>
    ELSE IF Len(parts) = 1 THEN parts[1]
    ELSE parts[1] \o <<c>> \o Join(Tail(parts), c)

\* s.lstrip()
RECURSIVE LStrip(_)
LStrip(s) ==
    IF s # <<>> /\ Head(s) \in Whitespace THEN LStrip(Tail(s)) ELSE s

\* s.rstrip()
RECURSIVE RStrip(_)
RStrip(s) ==
    IF s # <<>> /\ s[Len(s)] \in Whitespace
    THEN RStrip(SubSeq(s, 1, Len(s) - 1)) ELSE s

\* s.strip()
Strip(s) == RStrip(LStrip(s))

\* the lines a list comprehension keeps: [l for l in lines if keep(l)]
RECURSIVE KeepLines(_)
KeepLines(lines) ==
    IF lines = <<>> THEN <<>>
    ELSE LET l == Strip(Head(lines))
             stage == (l # <<>> /\ Head(l) = "(") \/ (l # <<>> /\ l[Len(l)] = ")")
         IN  (IF stage THEN <<>> ELSE <<Head(lines)>>) \o KeepLines(Tail(lines))

\* len(text.split()): the number of maximal runs of non-whitespace
RECURSIVE WordCount(_)
WordCount(s) ==
    IF s = <<>> THEN 0
    ELSE IF Head(s) \in Whitespace THEN WordCount(Tail(s))
    ELSE IF Len(s) = 1 \/ s[2] \in Whitespace THEN 1 + WordCount(Tail(s))
    ELSE WordCount(Tail(s))

\* the post-processing of the raw script in generate_podcast_background
CleanScript(raw) ==
    LET s1 == Remove(Remove(Remove(Remove(raw, <<"*", "*">>), <<"*">>), <<"[">>), <<"]">>)
        s2 == Remove(Remove(Remove(s1, <<"H", "o", "s", "t", ":">>), <<"-", "-", "-">>),
                     <<"M", "u", "s", "i", "c">>)
        s3 == Remove(Remove(s2, <<"I", "n", "t", "r", "o", ":">>),
                     <<"O", "u", "t", "r", "o", ":">>)
        s4 == Join(KeepLines(Split(s3, "\n")), "\n")
    IN  Strip(s4)

\* ------------------------------------------------------------------ inputs
\* keywords of the submit calls: one has an upper-case letter, the other a
\* character outside [a-zA-Z0-9]
Keywords == {<<"B">>, <<"b", "!">>}

\* what the text-generation collaborator returns: the empty tuple stands for
\* both the empty string and None, which the caller does not tell apart
Scripts == {<<>>,
            <<"*", "*">>,
            <<"(", "a", ")", "\n", "o", "k">>}

\* str(e) of the exceptions the pipeline records
MsgTemplate == "[Errno 2] No such file or directory: 'services/prompts/podcast.txt'"

MsgNoArticles == "No articles found for topic"

MsgTextGen == "Failed to generate text"

MsgNoContent == "No content generated for topic"

MsgTts == "TTS failed"

\* the request id for every keyword and clock reading and the cleaned form of
\* every script, computed once
request_ids == [k \in Keywords |-> [t \in 0..MaxTime |-> RequestId(k, t)]]

cleaned_scripts == [raw \in Scripts |-> CleanScript(raw)]


\* ------------------------------------------------------------------- state
VARIABLES
    now,             \* the latest reading of the wall clock, in seconds
    podcast_status,  \* request_id -> "processing" | "success" | "error"
    podcast_content, \* request_id -> script
    podcast_audio,   \* request_id -> None | Some(audio info)
    podcast_errors,  \* request_id -> None | Some(message)
    tasks,           \* the background tasks, in the order of their submit calls
    response         \* what the submit call that ran last answered

jobVars == <<now, podcast_status, podcast_content, podcast_audio, podcast_errors,
             tasks, response>>

\* the four dictionaries of the router
jobMaps == <<podcast_status, podcast_content, podcast_audio, podcast_errors>>

NoResponse == [op |-> "none"]

\* a background task as add_task registers it.  script and audio_filename are
\* its local variables while the TTS call is awaited; synth and ttsCalls count its
\* calls of the synthesizer and of the TTS, fail and tts record how they ended
NewTask(k, id) ==
    [request_id |-> id, keyword |-> k, pc |-> "scheduled",
     script |-> <<>>, audio_filename |-> <<>>,
     synth |-> 0, fail |-> "none", tts |-> "none", ttsCalls |-> 0]

\* d[k] = v of a Python dictionary
Put(d, k, v) == [x \in DOMAIN d \cup {k} |-> IF x = k THEN v ELSE d[x]]

\* PodcastResponse as generate_podcast builds it
SubmitResponse(k, id) ==
    [op |-> "generate", code |-> 200, keyword |-> k, content |-> <<>>,
     audio_url |-> None, duration |-> None, status |-> "processing",
     request_id |-> id, error |-> None]

\* ------------------------------------------------------- submit (POST /generate)
\* clock: what datetime.now() reads, never less than the reading before it
\* mutant: the handler awaits the start of the pipeline instead of scheduling it
generate_podcast_awaits(k, clock) ==
    /\ Len(tasks) < MaxSubmits
    /\ clock \in now..MaxTime
    /\ LET request_id == request_ids[k][clock]
       IN  /\ podcast_status' = Put(podcast_status, request_id, "processing")
           /\ podcast_content' = Put(podcast_content, request_id, <<>>)
           /\ podcast_audio' = Put(podcast_audio, request_id, None)
           /\ podcast_errors' = Put(podcast_errors, request_id, None)
           /\ tasks' = Append(tasks, [NewTask(k, request_id) EXCEPT
                                          !.pc = "search", !.synth = 1])
           /\ response' = SubmitResponse(k, request_id)
    /\ now' = clock

generate_podcast(k, clock) ==
    /\ Len(tasks) < MaxSubmits
    /\ clock \in now..MaxTime
    /\ LET request_id == request_ids[k][clock]
       IN  /\ podcast_status' = Put(podcast_status, request_id, "processing")
           /\ podcast_content' = Put(podcast_content, request_id, <<>>)
           /\ podcast_audio' = Put(podcast_audio, request_id, None)
           /\ podcast_errors' = Put(podcast_errors, request_id, None)
           /\ tasks' = Append(tasks, NewTask(k, request_id))
           /\ response' = SubmitResponse(k, request_id)
    /\ now' = clock

\* ------------------------------------------------ getStatus (GET /status/{id})
\* the snapshot get_podcast_status builds for a known id
Snapshot(request_id) ==
    LET audio_info == podcast_audio[request_id]
    IN  [op |-> "status", code |-> 200,
         keyword |-> Split(request_id, "_")[1],
         content |-> podcast_content[request_id],
         audio_url |-> IF audio_info # None THEN Some(audio_info[1].url) ELSE None,
         duration |-> IF audio_info # None THEN Some(audio_info[1].duration) ELSE None,
         status |-> podcast_status[request_id],
         request_id |-> request_id,
         error |-> podcast_errors[request_id]]

NotFound(request_id) == [op |-> "status", code |-> 404, request_id |-> request_id]

\* mutant: the handler tests the audio dictionary for a usable entry
get_podcast_status_audio(request_id) ==
    IF request_id \notin DOMAIN podcast_audio \/ podcast_audio[request_id] = None
    THEN NotFound(request_id)
    ELSE Snapshot(request_id)

\* GET /status/{request_id}.  The handler writes nothing, so a poll is no step
\* of the model: it is the answer the handler gives in the current state, and
\* a poll can be made in every reachable state
get_podcast_status(request_id) ==
    IF request_id \notin DOMAIN podcast_status
    THEN NotFound(request_id)
    ELSE Snapshot(request_id)

\* the ids a poller asks for: every id a submit can issue, issued or not
PollIds == {RequestId(k, t) : k \in Keywords, t \in 0..MaxTime}

\* ------------------------------------------- generate_podcast_background
\* a step of background task i, which leaves the task as t
PipelineStep(i, t) ==
    /\ tasks' = [tasks EXCEPT ![i] = t]
    /\ UNCHANGED <<now, response>>

\* a step of background task i in which it reads the wall clock
ClockStep(i, t, clock) ==
    /\ tasks' = [tasks EXCEPT ![i] = t]
    /\ now' = clock
    /\ UNCHANGED response

\* mutant: the outer except clause only logs the error
OuterExcept_logs_only(i, t, msg) ==
    /\ UNCHANGED jobMaps
    /\ PipelineStep(i, [t EXCEPT !.pc = "done"])

\* the outer except clause: status = "error", error = str(e)
OuterExcept(i, t, msg) ==
    /\ podcast_status' = Put(podcast_status, tasks[i].request_id, "error")
    /\ podcast_errors' = Put(podcast_errors, tasks[i].request_id, Some(msg))
    /\ UNCHANGED <<podcast_content, podcast_audio>>
    /\ PipelineStep(i, [t EXCEPT !.pc = "done"])

\* the task starts: generate_podcast_script loads the prompt template and
\* reaches its first await, the search
BgStart(i, found) ==
    /\ tasks[i].pc = "scheduled"
    /\ LET t == [tasks[i] EXCEPT !.synth = @ + 1]
       IN  IF found
           THEN /\ PipelineStep(i, [t EXCEPT !.pc = "search"])
                /\ UNCHANGED jobMaps
           ELSE OuterExcept(i, [t EXCEPT !.fail = "template"], MsgTemplate)

\* the audio information stored after a successful TTS call
AudioInfo(filename, script) ==
    [filename |-> filename,
     url |-> <<"/", "o", "u", "t", "p", "u", "t", "/">> \o filename,
     content_type |-> "audio/mpeg",
     duration |-> WordCount(script)]

\* f"{safe_keyword}_{timestamp}.mp3"
AudioFilename(k, t) ==
    safe_keyword(k) \o <<"_">> \o Timestamp(t) \o <<".", "m", "p", "3">>

\* the audio file name for every keyword and clock reading, computed once
audio_filenames == [k \in Keywords |-> [t \in 0..MaxTime |-> AudioFilename(k, t)]]

\* The article collection (search_news, the scraping loop, the closing of the
\* sessions) writes no job dictionary and search_news never raises, so the
\* task goes from the search to its next write in one step.
\* the ways generate_podcast_script yields no script: no article with content
\* (ValueError), generate_text raises, generate_text returns an empty text
SynthesisFailures == {"no_articles", "textgen", "empty"}

\* from the search to the end of the task when no script is produced
ScriptFails(i, cause) ==
    /\ tasks[i].pc = "search"
    /\ LET t == [tasks[i] EXCEPT !.fail = cause]
           id == t.request_id
       IN  IF cause = "no_articles"
           THEN OuterExcept(i, t, MsgNoArticles)
           ELSE IF cause = "textgen"
           THEN OuterExcept(i, t, MsgTextGen)
           ELSE /\ podcast_content' = Put(podcast_content, id, <<>>)
                /\ podcast_status' = Put(podcast_status, id, "error")
                /\ podcast_errors' = Put(podcast_errors, id, Some(MsgNoContent))
                /\ UNCHANGED podcast_audio
                /\ PipelineStep(i, [t EXCEPT !.pc = "done"])

\* mutant: the TTS call is given the script as the text generator returned it
ScriptReady_raw_to_tts(i, raw, clock, ctor) ==
    /\ tasks[i].pc = "search"
    /\ raw # <<>>
    /\ clock \in now..MaxTime
    /\ LET t == tasks[i]
           id == t.request_id
           script == cleaned_scripts[raw]
       IN  /\ podcast_content' = Put(Put(podcast_content, id, raw), id, script)
           /\ podcast_status' = Put(podcast_status, id, "success")
           /\ UNCHANGED podcast_audio
           /\ IF ctor
              THEN /\ UNCHANGED podcast_errors
                   /\ ClockStep(i, [t EXCEPT !.pc = "tts", !.script = raw,
                                       !.audio_filename = audio_filenames[t.keyword][clock],
                                       !.tts = "called", !.ttsCalls = @ + 1], clock)
              ELSE /\ podcast_errors' = Put(podcast_errors, id, Some(MsgTts))
                   /\ ClockStep(i, [t EXCEPT !.pc = "done", !.tts = "ctor"], clock)

\* from the search to the await of the TTS call when generate_text returns the
\* non-empty text raw: the script is stored, cleaned and stored again, the
\* status is set and the TTS call is prepared, all without suspension.
\* clock: what datetime.now() reads for the audio file name;
\* ctor: GoogleTTS() and the output directory can be set up
ScriptReady(i, raw, clock, ctor) ==
    /\ tasks[i].pc = "search"
    /\ raw # <<>>
    /\ clock \in now..MaxTime
    /\ LET t == tasks[i]
           id == t.request_id
           script == cleaned_scripts[raw]
       IN  /\ podcast_content' = Put(Put(podcast_content, id, raw), id, script)
           /\ podcast_status' = Put(podcast_status, id, "success")
           /\ UNCHANGED podcast_audio
           /\ IF ctor
              THEN /\ UNCHANGED podcast_errors
                   /\ ClockStep(i, [t EXCEPT !.pc = "tts", !.script = script,
                                       !.audio_filename = audio_filenames[t.keyword][clock],
                                       !.tts = "called", !.ttsCalls = @ + 1], clock)
              ELSE /\ podcast_errors' = Put(podcast_errors, id, Some(MsgTts))
                   /\ ClockStep(i, [t EXCEPT !.pc = "done", !.tts = "ctor"], clock)

\* mutant: the audio information is stored whether the TTS call returns or
\* raises
TtsReturn_audio_on_failure(i, ok) ==
    /\ tasks[i].pc = "tts"
    /\ LET t == tasks[i]
           id == t.request_id
       IN  /\ podcast_audio' = Put(podcast_audio, id,
                                   Some(AudioInfo(t.audio_filename, t.script)))
           /\ podcast_errors' = IF ok THEN podcast_errors
                                 ELSE Put(podcast_errors, id, Some(MsgTts))
           /\ UNCHANGED <<podcast_status, podcast_content>>
           /\ PipelineStep(i, [t EXCEPT !.pc = "done",
                                        !.tts = IF ok THEN "ok" ELSE "raised",
                                        !.script = <<>>, !.audio_filename = <<>>])

\* tts_service.text_to_speech returns the duration or raises
TtsReturn(i, ok) ==
    /\ tasks[i].pc = "tts"
    /\ LET t == tasks[i]
           id == t.request_id
       IN  IF ok
           THEN /\ podcast_audio' = Put(podcast_audio, id,
                                        Some(AudioInfo(t.audio_filename, t.script)))
                /\ UNCHANGED <<podcast_status, podcast_content, podcast_errors>>
                /\ PipelineStep(i, [t EXCEPT !.pc = "done", !.tts = "ok", !.script = <<>>,
                                       !.audio_filename = <<>>])
           ELSE /\ podcast_errors' = Put(podcast_errors, id, Some(MsgTts))
                /\ UNCHANGED <<podcast_status, podcast_content, podcast_audio>>
                /\ PipelineStep(i, [t EXCEPT !.pc = "done", !.tts = "raised", !.script = <<>>,
                                       !.audio_filename = <<>>])

\* ---------------------------------------------------- the resilient fetcher
\* GDELTService._make_request: one call, attempt by attempt.  The steps of an
\* attempt are the awaits of the loop body: the proxy lease, the GET with the
\* reading of the response, the proxy release and the sleep.
VARIABLES
    proxy_enabled,   \* self.proxy_enabled
    pool,            \* the proxies the pool service holds
    f_pc,            \* where the call is: "idle", "attempt", "get", "release",
                     \* "sleep", "returned" or "raised"
    attempt,         \* the loop variable, from 0
    proxy_dict,      \* the proxy of this attempt, or None
    acquires,        \* what each get_proxy call of this call returned
    gets,            \* the GETs of this call: attempt, proxy and outcome
    releases,        \* the proxies passed to delete_proxy, in order
    sleeps,          \* the number of asyncio.sleep(2) calls
    result           \* the returned value, None or Some(payload)

fetchVars == <<proxy_enabled, pool, f_pc, attempt, proxy_dict, acquires, gets,
               releases, sleeps, result>>

\* the callers and the collaborators of the fetcher
VARIABLES
    probe,           \* the _test_proxy_connection task of the app service
    pm_log,          \* the calls made on a ProxyManager, with what they returned
    call             \* a call of search or search_news, from its arguments
                     \* to what it returns

callVars == <<probe, pm_log, call>>

\* a Scraper object, the connections it opened and the coroutines using it
VARIABLES
    session,         \* self.session: None or Some(i), the i-th connection opened
    sessions,        \* the connections opened so far, each "open" or "closed"
    since_request,   \* loop.time() - self._last_request_time, in ticks, at
                     \* most the minimum interval
    since_sent,      \* the ticks since the last GET left for the target, at
                     \* most the minimum interval
    coros            \* the coroutines that call the scraper

scrapeVars == <<session, sessions, since_request, since_sent, coros>>

\* ------------------------------------------------------ the output directory
VARIABLES
    output_dir       \* the names of the files written to output/

audioVars == <<output_dir>>

vars == <<now, podcast_status, podcast_content, podcast_audio, podcast_errors,
          tasks, response,
          proxy_enabled, pool, f_pc, attempt, proxy_dict, acquires, gets,
          releases, sleeps, result,
          probe, pm_log, call,
          session, sessions, since_request, since_sent, coros,
          output_dir>>

\* max_retries of _make_request
max_retries == 3

\* the proxies of the pool service
Proxies == {"10.0.0.1:80", "10.0.0.2:80"}

\* the parsed payloads the provider can answer with
Payloads == {"articles1", "articles2"}

\* how one GET can end: the three kinds of exception, a status other than 200,
\* an empty body, a body that is not JSON, a body that parses to an empty
\* (falsy) JSON value, and a body that parses to a payload
GetOutcomes == {"timeout", "client_error", "exception", "non200", "empty_body",
                "bad_json", "empty_json", "ok"}

\* mutant: the attempt has no clause for exceptions in general
ExceptClause_narrow(kind) ==
    CASE kind = "timeout" -> "asyncio.TimeoutError"
      [] kind = "client_error" -> "aiohttp.ClientError"
      [] OTHER -> "none"

\* the except clause of the attempt that catches an exception of this kind,
\* in the order of the clauses; "none" if it propagates to the caller
ExceptClause(kind) ==
    CASE kind = "timeout" -> "asyncio.TimeoutError"
      [] kind = "client_error" -> "aiohttp.ClientError"
      [] OTHER -> "Exception"

\* mutant: an exception of the GET leaves the call
AfterGet_reraises(outcome, leased) ==
    CASE outcome = "ok" -> "return"
      [] outcome \in {"bad_json", "empty_json"} -> "sleep"
      [] outcome \in {"non200", "empty_body"} -> IF leased THEN "release" ELSE "sleep"
      [] OTHER -> "raise"

\* what the attempt does after a GET that ended with this outcome, given
\* whether a proxy was leased: "return" the payload, "release" the proxy,
\* go to "sleep", or "raise"
AfterGet(outcome, leased) ==
    CASE outcome = "ok" -> "return"
      [] outcome \in {"bad_json", "empty_json"} -> "sleep"
      [] outcome \in {"non200", "empty_body"} -> IF leased THEN "release" ELSE "sleep"
      [] OTHER -> IF ExceptClause(outcome) = "none" THEN "raise"
                  ELSE IF leased THEN "release" ELSE "sleep"

\* mutant: the last attempt leases a proxy as well
FetchAcquire_every_attempt(p) ==
    /\ f_pc = "attempt"
    /\ proxy_enabled /\ attempt < max_retries
    /\ IF p = None THEN TRUE ELSE p[1] \in pool
    /\ proxy_dict' = p
    /\ acquires' = Append(acquires, p)
    /\ f_pc' = "get"
    /\ UNCHANGED <<proxy_enabled, pool, attempt, gets, releases, sleeps, result>>

\* the attempt begins on a proxy attempt: proxy_manager.get_proxy() answers
\* with a proxy of the pool or with None (it never raises)
FetchAcquire(p) ==
    /\ f_pc = "attempt"
    /\ proxy_enabled /\ attempt < 2
    /\ IF p = None THEN TRUE ELSE p[1] \in pool
    /\ proxy_dict' = p
    /\ acquires' = Append(acquires, p)
    /\ f_pc' = "get"
    /\ UNCHANGED <<proxy_enabled, pool, attempt, gets, releases, sleeps, result>>

\* the attempt begins without a proxy
FetchDirect ==
    /\ f_pc = "attempt"
    /\ ~(proxy_enabled /\ attempt < 2)
    /\ proxy_dict' = None
    /\ f_pc' = "get"
    /\ UNCHANGED <<proxy_enabled, pool, attempt, acquires, gets, releases, sleeps,
                   result>>

\* session.get and the handling of its response or exception
FetchGet(outcome, payload) ==
    /\ f_pc = "get"
    /\ gets' = Append(gets, [attempt |-> attempt, proxy |-> proxy_dict,
                             outcome |-> outcome,
                             payload |-> IF outcome = "ok" THEN Some(payload) ELSE None])
    /\ LET after == AfterGet(outcome, proxy_dict # None)
       IN  /\ f_pc' = CASE after = "return" -> "returned"
                        [] after = "raise" -> "raised"
                        [] OTHER -> after
           /\ result' = IF after = "return" THEN Some(payload) ELSE result
    /\ UNCHANGED <<proxy_enabled, pool, attempt, proxy_dict, acquires, releases,
                   sleeps>>

\* proxy_manager.delete_proxy(proxy_dict): best effort, the pool service may
\* fail to delete
FetchRelease(deleted) ==
    /\ f_pc = "release"
    /\ releases' = Append(releases, proxy_dict[1])
    /\ pool' = IF deleted THEN pool \ {proxy_dict[1]} ELSE pool
    /\ f_pc' = "sleep"
    /\ UNCHANGED <<proxy_enabled, attempt, proxy_dict, acquires, gets, sleeps, result>>

\* mutant: the sleep is skipped after the last attempt
FetchSleep_between ==
    /\ f_pc = "sleep"
    /\ sleeps' = IF attempt + 1 < max_retries THEN sleeps + 1 ELSE sleeps
    /\ attempt' = attempt + 1
    /\ f_pc' = IF attempt + 1 < max_retries THEN "attempt" ELSE "returned"
    /\ proxy_dict' = None
    /\ result' = None
    /\ UNCHANGED <<proxy_enabled, pool, acquires, gets, releases>>

\* asyncio.sleep(2) and the end of the loop body; after the last attempt the
\* call returns None
FetchSleep ==
    /\ f_pc = "sleep"
    /\ sleeps' = sleeps + 1
    /\ attempt' = attempt + 1
    /\ f_pc' = IF attempt + 1 < max_retries THEN "attempt" ELSE "returned"
    /\ proxy_dict' = None
    /\ result' = None
    /\ UNCHANGED <<proxy_enabled, pool, acquires, gets, releases>>

\* ---------------------------------------------------------- specifications

JobInit ==
    /\ now = 0
    /\ podcast_status = <<>>
    /\ podcast_content = <<>>
    /\ podcast_audio = <<>>
    /\ podcast_errors = <<>>
    /\ tasks = <<>>
    /\ response = NoResponse

FetchIdle ==
    /\ proxy_enabled = TRUE
    /\ pool = Proxies
    /\ f_pc = "idle"
    /\ attempt = 0
    /\ proxy_dict = None
    /\ acquires = <<>>
    /\ gets = <<>>
    /\ releases = <<>>
    /\ sleeps = 0
    /\ result = None

\* no probe task, no ProxyManager call and no search call
NoProbe == [pc |-> "none", proxy |-> None]

NoCall == [pc |-> "none"]

CallIdle ==
    /\ probe = NoProbe
    /\ pm_log = <<>>
    /\ call = NoCall

\* a scraper nobody uses
ScrapeIdle ==
    /\ session = None
    /\ sessions = <<>>
    /\ since_request = 0
    /\ since_sent = 0
    /\ coros = <<>>

\* nothing has been written to the output directory
AudioIdle == output_dir = {}

Init == JobInit /\ FetchIdle /\ CallIdle /\ ScrapeIdle /\ AudioIdle

Next ==
    \/ \E k \in Keywords, clock \in 0..MaxTime :
          generate_podcast(k, clock) /\ UNCHANGED <<fetchVars, callVars, scrapeVars, audioVars>>
    \/ \E i \in 1..Len(tasks), found \in BOOLEAN : BgStart(i, found) /\ UNCHANGED <<fetchVars, callVars, scrapeVars, audioVars>>
    \/ \E i \in 1..Len(tasks), cause \in SynthesisFailures :
          ScriptFails(i, cause) /\ UNCHANGED <<fetchVars, callVars, scrapeVars, audioVars>>
    \/ \E i \in 1..Len(tasks), raw \in Scripts, clock \in 0..MaxTime, ctor \in BOOLEAN :
          ScriptReady(i, raw, clock, ctor) /\ UNCHANGED <<fetchVars, callVars, scrapeVars, audioVars>>
    \/ \E i \in 1..Len(tasks), ok \in BOOLEAN : TtsReturn(i, ok) /\ UNCHANGED <<fetchVars, callVars, scrapeVars, audioVars>>

Spec == Init /\ [][Next]_vars

\* a call of _make_request on a service with or without proxying, against a
\* pool holding any of the proxies
FetchInit ==
    /\ JobInit
    /\ AudioIdle
    /\ ScrapeIdle
    /\ CallIdle
    /\ proxy_enabled \in BOOLEAN
    /\ pool \in SUBSET Proxies
    /\ f_pc = "attempt"
    /\ attempt = 0
    /\ proxy_dict = None
    /\ acquires = <<>>
    /\ gets = <<>>
    /\ releases = <<>>
    /\ sleeps = 0
    /\ result = None

FetchNext ==
    \/ \E p \in {None} \cup {Some(x) : x \in Proxies} : FetchAcquire(p) /\ UNCHANGED <<jobVars, callVars, scrapeVars, audioVars>>
    \/ FetchDirect /\ UNCHANGED <<jobVars, callVars, scrapeVars, audioVars>>
    \/ \E o \in GetOutcomes, d \in Payloads : FetchGet(o, d) /\ UNCHANGED <<jobVars, callVars, scrapeVars, audioVars>>
    \/ \E deleted \in BOOLEAN : FetchRelease(deleted) /\ UNCHANGED <<jobVars, callVars, scrapeVars, audioVars>>
    \/ FetchSleep /\ UNCHANGED <<jobVars, callVars, scrapeVars, audioVars>>

FetchSpec == FetchInit /\ [][FetchNext]_vars

\* ------------------------------------------------------------------ claims
\* the ids the submit calls have issued so far
IssuedIds == {tasks[i].request_id : i \in 1..Len(tasks)}

\* the background tasks that were scheduled for this id
TasksOf(id) == {i \in 1..Len(tasks) : tasks[i].request_id = id}

\* the task of the submit call that created the record of this id
Creator(id) == CHOOSE i \in TasksOf(id) : \A j \in TasksOf(id) : i <= j

\* the job record of an id
Record(id) ==
    <<podcast_status[id], podcast_content[id], podcast_audio[id], podcast_errors[id]>>

\* C1: the only changes of a job's status are processing -> success and
\* processing -> error; a terminal status never changes again
C1_StatusNeverRegresses ==
    [][\A id \in DOMAIN podcast_status :
          podcast_status'[id] # podcast_status[id]
          => /\ podcast_status[id] = "processing"
             /\ podcast_status'[id] \in {"success", "error"}]_vars

\* C2: a job record, once created, is written only by a step of the
\* background task that the creating submit call scheduled
C2_OnlyOwnTaskWrites ==
    [][\A id \in DOMAIN podcast_status :
          Record(id)' # Record(id)
          => /\ Len(tasks') = Len(tasks)
             /\ tasks'[Creator(id)] # tasks[Creator(id)]]_vars

\* C3: a submit call registers the job as processing with an empty script, no
\* audio and no error, schedules its task without running any step of it,
\* leaves every other task where it was and answers with the processing
\* response
C3_SubmitOnlyRegisters ==
    [][Len(tasks') # Len(tasks)
       => LET n == Len(tasks')
              id == tasks'[n].request_id
          IN  /\ n = Len(tasks) + 1
              /\ podcast_status'[id] = "processing"
              /\ podcast_content'[id] = <<>>
              /\ podcast_audio'[id] = None
              /\ podcast_errors'[id] = None
              /\ tasks'[n].pc = "scheduled"
              /\ tasks'[n].synth = 0 /\ tasks'[n].ttsCalls = 0
              /\ tasks'[n].tts = "none" /\ tasks'[n].fail = "none"
              /\ \A i \in 1..Len(tasks) : tasks'[i] = tasks[i]
              /\ response'.op = "generate" /\ response'.code = 200
              /\ response'.keyword = tasks'[n].keyword
              /\ response'.status = "processing" /\ response'.content = <<>>
              /\ response'.audio_url = None /\ response'.request_id = id]_vars

\* C3 witness: a submit call has just answered while an earlier job is done
C3_Witness ==
    /\ response.op = "generate"
    /\ response.request_id = tasks[Len(tasks)].request_id
    /\ Len(tasks) = 2
    /\ tasks[1].pc = "done"
    /\ tasks[2].pc = "scheduled"

\* C4: in every state getStatus answers 404 exactly for the ids no submit
\* call has issued; the four dictionaries hold exactly the issued ids, so no
\* record is ever deleted and every issued id is answered with a snapshot
C4_NotFoundIffNeverIssued ==
    /\ DOMAIN podcast_status = IssuedIds
    /\ DOMAIN podcast_content = IssuedIds
    /\ DOMAIN podcast_audio = IssuedIds
    /\ DOMAIN podcast_errors = IssuedIds
    /\ \A id \in PollIds :
          /\ get_podcast_status(id).code \in {200, 404}
          /\ get_podcast_status(id).code = 404 <=> id \notin IssuedIds

\* C4 witness: an issued id whose pipeline has ended in error is answered with
\* its snapshot while another id is answered 404
C4_Witness ==
    /\ \E id \in PollIds :
          /\ id \in IssuedIds
          /\ \A i \in TasksOf(id) : tasks[i].pc = "done"
          /\ get_podcast_status(id).code = 200
          /\ get_podcast_status(id).status = "error"
    /\ \E id \in PollIds : get_podcast_status(id).code = 404

\* C5: as long as no background task takes a step the answer of getStatus for
\* a job stays the same, so that two polls with no pipeline step between them
\* return identical snapshots
C5_SnapshotStableBetweenPipelineSteps ==
    [][(Len(tasks') >= Len(tasks) /\ \A i \in 1..Len(tasks) : tasks'[i] = tasks[i])
       => \A id \in DOMAIN podcast_status :
             get_podcast_status(id)' = get_podcast_status(id)]_vars

\* C6: when every pipeline run of a job id has ended and the script synthesis
\* of one of them failed (no article with content, text generation raised, or
\* an empty script), the job is in error with a non-empty message and no
\* audio, and that run called the synthesizer once and the TTS never
C6_SynthesisFailureEndsInError ==
    \A i \in 1..Len(tasks) :
        LET id == tasks[i].request_id
        IN  (/\ \A j \in TasksOf(id) : tasks[j].pc = "done"
             /\ tasks[i].fail \in {"no_articles", "textgen", "empty"})
            => /\ podcast_status[id] = "error"
               /\ podcast_errors[id] # None
               /\ podcast_errors[id][1] # ""
               /\ podcast_audio[id] = None
               /\ tasks[i].ttsCalls = 0
               /\ tasks[i].synth = 1

\* C7: when every pipeline run of a job id has ended and the TTS step of one
\* of them failed after its script synthesis succeeded, the job is a success
\* with a non-empty script, no audio and the TTS failure as its error
C7_TtsFailureKeepsSuccess ==
    \A i \in 1..Len(tasks) :
        LET id == tasks[i].request_id
        IN  (/\ \A j \in TasksOf(id) : tasks[j].pc = "done"
             /\ tasks[i].tts \in {"raised", "ctor"})
            => /\ podcast_status[id] = "success"
               /\ podcast_content[id] # <<>>
               /\ podcast_audio[id] = None
               /\ podcast_errors[id] = Some(MsgTts)

\* C8: a job has audio only if a TTS call of a run of it returned, and a job
\* a run of which stopped before the TTS step or saw its TTS call raise has
\* no audio
C8_AudioOnlyAfterTtsSuccess ==
    /\ \A id \in DOMAIN podcast_audio :
          podcast_audio[id] # None => \E i \in TasksOf(id) : tasks[i].tts = "ok"
    /\ \A i \in 1..Len(tasks) :
          (tasks[i].pc = "done" /\ tasks[i].tts # "ok")
          => podcast_audio[tasks[i].request_id] = None

\* the GETs of the call that ended with a payload
OkGets == {j \in 1..Len(gets) : gets[j].outcome = "ok"}

\* C9: the fetcher never raises; no attempt follows a successful one; the
\* call returns the payload of its first successful attempt, and None after
\* three failed attempts
C9_FirstSuccessOrNone ==
    /\ f_pc # "raised"
    /\ Len(gets) <= 3
    /\ \A j \in OkGets : j = Len(gets) /\ f_pc = "returned"
    /\ f_pc = "returned"
       => IF OkGets = {}
          THEN result = None /\ Len(gets) = 3
          ELSE result = gets[Len(gets)].payload /\ result # None

\* C9 witness: attempts 1 and 2 failed, attempt 3 succeeded and its payload
\* was returned
C9_Witness ==
    /\ f_pc = "returned"
    /\ Len(gets) = 3
    /\ gets[1].outcome # "ok" /\ gets[2].outcome # "ok" /\ gets[3].outcome = "ok"
    /\ result = gets[3].payload

\* the number of entries of a sequence equal to x
RECURSIVE Count(_, _)
Count(seq, x) ==
    IF seq = <<>> THEN 0
    ELSE (IF Head(seq) = x THEN 1 ELSE 0) + Count(Tail(seq), x)

\* the failed attempts of the call that used proxy x
FailedWith(x) ==
    {j \in 1..Len(gets) : gets[j].proxy = Some(x) /\ gets[j].outcome # "ok"}

\* C10: once the fetcher sleeps after a failed attempt, or has returned, every
\* proxy has been released as often as a failed attempt used it
C10_FailedProxyReleased ==
    f_pc \in {"sleep", "attempt", "returned"}
    => \A x \in Proxies : Count(releases, x) >= Cardinality(FailedWith(x))

\* the number of attempts the call has begun
Begun == IF f_pc = "attempt" THEN attempt
         ELSE IF attempt < max_retries THEN attempt + 1 ELSE max_retries

\* C11: get_proxy is called once on each of the attempts 1 and 2 that the call
\* begins with proxying enabled and on no other attempt; every attempt is made
\* with what its get_proxy call returned, directly if that was None; the third
\* attempt is made directly; with proxying disabled there is no get_proxy
\* call, no delete_proxy call and every attempt is direct
C11_AcquireOnFirstTwoAttemptsOnly ==
    /\ Len(acquires) = IF ~proxy_enabled THEN 0
                       ELSE IF Begun < 2 THEN Begun ELSE 2
    /\ \A j \in 1..Len(gets) :
          /\ gets[j].attempt = j - 1
          /\ gets[j].proxy = IF proxy_enabled /\ j <= 2 THEN acquires[j] ELSE None
    /\ ~proxy_enabled => releases = <<>>

\* C11 witness: with proxying enabled the first lease returned None, the second
\* a proxy, and the third attempt was made directly
C11_Witness ==
    /\ proxy_enabled
    /\ Len(gets) = 3
    /\ acquires[1] = None /\ gets[1].proxy = None
    /\ acquires[2] # None /\ gets[2].proxy = acquires[2]
    /\ gets[3].proxy = None

\* the GET outcomes with status 200 and a non-empty body that parses as JSON:
\* a payload or an empty (falsy) JSON value
ParsedOutcomes == {"ok", "empty_json"}

\* C12: a GET that received 200 with a body that parses as JSON is the last
\* GET of the call, and the call has returned right after it without a
\* release or a sleep
C12_ParsedBodyEndsCall ==
    \A j \in 1..Len(gets) :
        gets[j].outcome \in ParsedOutcomes
        => /\ j = Len(gets)
           /\ f_pc = "returned"
           /\ sleeps = j - 1

\* the failed attempts of the call
FailedGets == {j \in 1..Len(gets) : gets[j].outcome # "ok"}

\* seconds of one asyncio.sleep(2)
sleep_seconds == 2

\* C13: whenever the call is between attempts or has returned, it has slept
\* once for every failed attempt, the third included, and not for a successful
\* one; the time slept is 2 seconds for every failed attempt
C13_OneSleepPerFailedAttempt ==
    f_pc \in {"attempt", "returned"}
    => /\ sleeps = Cardinality(FailedGets)
       /\ sleeps * sleep_seconds >= 2 * Cardinality(FailedGets)
       /\ OkGets # {} => sleeps = Len(gets) - 1

\* C13 witness: three failed attempts, three sleeps, None returned
C13_Witness ==
    /\ f_pc = "returned"
    /\ Cardinality(FailedGets) = 3
    /\ sleeps = 3
    /\ result = None

\* every external call of the fetcher eventually returns or raises: a call
\* that is not over takes its next step
FetchLive == FetchSpec /\ WF_vars(FetchNext)

\* C14: the call ends, and at no time has it made more than 3 GETs, 2
\* get_proxy calls or 2 delete_proxy calls
C14_FetchTerminatesWithinBounds ==
    /\ <>(f_pc = "returned")
    /\ [](Len(gets) <= 3 /\ Len(acquires) <= 2 /\ Len(releases) <= 2)

\* C14 witness: a call that ended after 3 GETs, 2 leases and 2 releases
C14_Witness ==
    /\ f_pc = "returned"
    /\ Len(gets) = 3 /\ Len(acquires) = 2 /\ Len(releases) = 2

\* ------------------------------------- the proxy probe of the app service
\* app/services/gdelt.py: GDELTService.__init__ with proxy_enabled schedules
\* _test_proxy_connection, which runs beside the calls of the service.
\* the task's get_proxy call: with a proxy it goes on to delete it, with None
\* it switches proxying off
ProbeGet(p) ==
    /\ probe.pc = "created"
    /\ IF p = None THEN TRUE ELSE p[1] \in pool
    /\ IF p # None
       THEN /\ probe' = [pc |-> "delete", proxy |-> p]
            /\ UNCHANGED proxy_enabled
       ELSE /\ probe' = [pc |-> "done", proxy |-> None]
            /\ proxy_enabled' = FALSE
    /\ UNCHANGED <<pool, f_pc, attempt, proxy_dict, acquires, gets, releases, sleeps,
                   result, pm_log, call>>

\* the task's delete_proxy(proxy) call: best effort, as in FetchRelease
ProbeDelete(deleted) ==
    /\ probe.pc = "delete"
    /\ releases' = Append(releases, probe.proxy[1])
    /\ pool' = IF deleted THEN pool \ {probe.proxy[1]} ELSE pool
    /\ probe' = [pc |-> "done", proxy |-> None]
    /\ UNCHANGED <<proxy_enabled, f_pc, attempt, proxy_dict, acquires, gets, sleeps,
                   result, pm_log, call>>

\* a call of _make_request on an app service that was constructed with or
\* without proxying; the probe is scheduled exactly when it was
AppInit ==
    /\ JobInit
    /\ AudioIdle
    /\ ScrapeIdle
    /\ proxy_enabled \in BOOLEAN
    /\ pool \in SUBSET Proxies
    /\ f_pc = "attempt"
    /\ attempt = 0
    /\ proxy_dict = None
    /\ acquires = <<>>
    /\ gets = <<>>
    /\ releases = <<>>
    /\ sleeps = 0
    /\ result = None
    /\ probe = [pc |-> IF proxy_enabled THEN "created" ELSE "none", proxy |-> None]
    /\ pm_log = <<>>
    /\ call = NoCall

AppNext ==
    \/ FetchNext
    \/ \E p \in {None} \cup {Some(x) : x \in Proxies} : ProbeGet(p) /\ UNCHANGED <<jobVars, scrapeVars, audioVars>>
    \/ \E deleted \in BOOLEAN : ProbeDelete(deleted) /\ UNCHANGED <<jobVars, scrapeVars, audioVars>>

AppSpec == AppInit /\ [][AppNext]_vars

\* C15: every proxy of a GET is the one leased for that attempt, so no lease
\* serves two attempts, and a proxy has been passed to delete_proxy at most as
\* often as an attempt that used it has failed
C15_DeletedOnlyAfterFailedUse ==
    /\ \A j \in 1..Len(gets) :
          gets[j].proxy # None => j <= Len(acquires) /\ gets[j].proxy = acquires[j]
    /\ \A x \in Proxies : Count(releases, x) <= Cardinality(FailedWith(x))

\* ------------------------------------------------------- the ProxyManager
\* utils/proxy_manager.py.  What the pool service can answer to one GET: a
\* transport error, or a status with a body that is not JSON, is a JSON list,
\* or is a JSON object without a proxy field, with an empty one or with one
PoolStatuses == {200, 500}

PoolBodies ==
    {[t |-> "text", proxy |-> None], [t |-> "list", proxy |-> None],
     [t |-> "dict", proxy |-> None], [t |-> "dict", proxy |-> Some("")]}
    \cup {[t |-> "dict", proxy |-> Some(x)] : x \in Proxies}

PoolAnswers ==
    {[kind |-> "error", status |-> 0, body |-> [t |-> "text", proxy |-> None]]}
    \cup {[kind |-> "http", status |-> st, body |-> b] : st \in PoolStatuses, b \in PoolBodies}

\* {"http": f"http://{proxy_str}", "https": f"http://{proxy_str}"}
ProxyDict(proxy_str) ==
    [http |-> <<"http://", proxy_str>>, https |-> <<"http://", proxy_str>>]

\* the try block of get_proxy: exc if a statement of it raises (the GET, the
\* parsing of the body by response.json(), .get on a value that is no
\* object), ret if it reaches its return statement
GetProxyTry(answer) ==
    IF answer.kind = "error" THEN [exc |-> TRUE, ret |-> None]
    ELSE IF answer.status # 200 THEN [exc |-> FALSE, ret |-> None]
    ELSE IF answer.body.t # "dict" THEN [exc |-> TRUE, ret |-> None]
    ELSE LET proxy_str == answer.body.proxy
         IN  IF proxy_str # None /\ proxy_str[1] # ""
             THEN [exc |-> FALSE, ret |-> Some(ProxyDict(proxy_str[1]))]
             ELSE [exc |-> FALSE, ret |-> None]

\* mutant: get_proxy has no except clause
get_proxy_uncaught(answer) ==
    LET t == GetProxyTry(answer)
    IN  IF t.exc THEN [raised |-> TRUE, value |-> None, logged |-> FALSE]
        ELSE [raised |-> FALSE, value |-> t.ret, logged |-> FALSE]

\* get_proxy: an exception of the try block is logged and None is returned
get_proxy(answer) ==
    LET t == GetProxyTry(answer)
    IN  IF t.exc THEN [raised |-> FALSE, value |-> None, logged |-> TRUE]
        ELSE [raised |-> FALSE, value |-> t.ret, logged |-> FALSE]

\* delete_proxy: the GET of the delete URL; a status other than 200 and an
\* exception are logged; the method has no return statement
delete_proxy(proxy, answer) ==
    LET exc == answer.kind = "error"
    IN  [raised |-> FALSE, value |-> None,
         logged |-> IF exc THEN TRUE ELSE answer.status # 200]

\* the proxy dictionaries a caller can pass to delete_proxy
ProxyDicts == {ProxyDict(x) : x \in Proxies}

PmGet(answer) ==
    /\ Len(pm_log) < MaxPoolCalls
    /\ pm_log' = Append(pm_log, [op |-> "get_proxy", arg |-> None, answer |-> answer,
                                 result |-> get_proxy(answer)])
    /\ UNCHANGED <<probe, call>>

PmDelete(proxy, answer) ==
    /\ Len(pm_log) < MaxPoolCalls
    /\ pm_log' = Append(pm_log, [op |-> "delete_proxy", arg |-> Some(proxy),
                                 answer |-> answer,
                                 result |-> delete_proxy(proxy, answer)])
    /\ UNCHANGED <<probe, call>>

ProxyNext ==
    \/ \E answer \in PoolAnswers : PmGet(answer) /\ UNCHANGED <<jobVars, fetchVars, scrapeVars, audioVars>>
    \/ \E proxy \in ProxyDicts, answer \in PoolAnswers :
          PmDelete(proxy, answer) /\ UNCHANGED <<jobVars, fetchVars, scrapeVars, audioVars>>

ProxySpec == Init /\ [][ProxyNext]_vars

\* the answers get_proxy turns into a proxy: 200 with an object whose proxy
\* field is not empty
GoodAnswer(answer) ==
    /\ answer.kind = "http" /\ answer.status = 200
    /\ answer.body.t = "dict"
    /\ answer.body.proxy \notin {None, Some("")}

\* C16: no call on the ProxyManager raises; get_proxy returns a proxy exactly
\* for a 200 answer with a non-empty proxy field, and it is the proxy of that
\* field; delete_proxy returns nothing; what a call returns depends on its
\* argument and on the answer of the pool alone, not on the calls before it
C16_ProxyManagerNeverRaises ==
    /\ \A i \in 1..Len(pm_log) :
          LET c == pm_log[i]
          IN  /\ ~c.result.raised
              /\ c.op = "get_proxy"
                 => /\ c.result.value # None <=> GoodAnswer(c.answer)
                    /\ GoodAnswer(c.answer)
                       => c.result.value = Some(ProxyDict(c.answer.body.proxy[1]))
              /\ c.op = "delete_proxy" => c.result.value = None
    /\ \A i, j \in 1..Len(pm_log) :
          (pm_log[i].op = pm_log[j].op /\ pm_log[i].arg = pm_log[j].arg
           /\ pm_log[i].answer = pm_log[j].answer)
          => pm_log[i].result = pm_log[j].result

\* C16 witness: a get_proxy call that met a transport error returned None and
\* a delete_proxy call that met one returned as well
C16_Witness ==
    /\ Len(pm_log) = 2
    /\ pm_log[1].op = "get_proxy" /\ pm_log[1].answer.kind = "error"
    /\ ~pm_log[1].result.raised /\ pm_log[1].result.value = None
    /\ pm_log[2].op = "delete_proxy" /\ pm_log[2].answer.kind = "error"
    /\ ~pm_log[2].result.raised

\* ------------------------------------------------------ GDELTService.search
\* s.replace(p, r): leftmost non-overlapping occurrences of p become r
RECURSIVE ReplaceAll(_, _, _)
ReplaceAll(s, p, r) ==
    IF Len(s) < Len(p) THEN s
    ELSE IF StartsWith(s, p) THEN r \o ReplaceAll(SubSeq(s, Len(p) + 1, Len(s)), p, r)
    ELSE <<Head(s)>> \o ReplaceAll(Tail(s), p, r)

\* index of the first occurrence of the string p in s, 0 if there is none
RECURSIVE Find(_, _)
Find(s, p) ==
    IF Len(s) < Len(p) THEN 0
    ELSE IF StartsWith(s, p) THEN 1
    ELSE LET r == Find(Tail(s), p) IN IF r = 0 THEN 0 ELSE r + 1

\* s.split(sep) for a separator string
RECURSIVE SplitStr(_, _)
SplitStr(s, sep) ==
    LET i == Find(s, sep)
    IN  IF i = 0 THEN <<s>>
        ELSE <<SubSeq(s, 1, i - 1)>> \o SplitStr(SubSeq(s, i + Len(sep), Len(s)), sep)

\* sep.join(parts) for a separator string
RECURSIVE JoinStr(_, _)
JoinStr(parts, sep) ==
    IF parts = <<>> THEN <<>>
    ELSE IF Len(parts) = 1 THEN parts[1]
    ELSE parts[1] \o sep \o JoinStr(Tail(parts), sep)

SepAnd == <<" ", "A", "N", "D", " ">>

SepOr == <<" ", "O", "R", " ">>

\* f'"{term}"'
Quoted(term) == <<"\"">> \o term \o <<"\"">>

\* mutant: the minimum length is tested before the terms are trimmed
SearchTerms_untrimmed(query) ==
    LET pieces == SplitStr(ReplaceAll(query, SepAnd, SepOr), SepOr)
        long == SelectSeq(pieces, LAMBDA t : Len(t) >= 3)
    IN  [i \in 1..Len(long) |-> Strip(long[i])]

\* the terms of a query: split on AND and OR, trimmed, at least 3 characters
SearchTerms(query) ==
    LET pieces == SplitStr(ReplaceAll(query, SepAnd, SepOr), SepOr)
        terms == [i \in 1..Len(pieces) |-> Strip(pieces[i])]
    IN  SelectSeq(terms, LAMBDA t : Len(t) >= 3)

\* mutant: the quoted terms are joined with AND
FormatQuery_and(terms) ==
    IF Len(terms) > 1
    THEN <<"(">> \o JoinStr([i \in 1..Len(terms) |-> Quoted(terms[i])], SepAnd) \o <<")">>
    ELSE Quoted(terms[1])

\* the provider query of a non-empty list of terms
FormatQuery(terms) ==
    IF Len(terms) > 1
    THEN <<"(">> \o JoinStr([i \in 1..Len(terms) |-> Quoted(terms[i])], SepOr) \o <<")">>
    ELSE Quoted(terms[1])

\* params.get('maxrecords', 250)
default_maxrecords == 250

\* search(query): None at once for a query without a term, else the result of
\* _make_request on the URL of the provider query
search ==
    /\ call.pc = "idle" /\ call.op = "search"
    /\ LET terms == SearchTerms(call.arg)
       IN  IF terms = <<>>
           THEN /\ call' = [call EXCEPT !.pc = "done", !.out = Some(None)]
                /\ UNCHANGED f_pc
           ELSE /\ call' = [call EXCEPT !.pc = "fetching",
                                         !.sent = Some([query |-> FormatQuery(terms),
                                                        maxrecords |-> default_maxrecords])]
                /\ f_pc' = "attempt"
    /\ UNCHANGED <<proxy_enabled, pool, attempt, proxy_dict, acquires, gets, releases,
                   sleeps, result, probe, pm_log>>

\* _make_request is over: search returns its result, or None from its except
\* clause if it raised
search_returns ==
    /\ call.pc = "fetching" /\ call.op = "search"
    /\ f_pc \in {"returned", "raised"}
    /\ call' = [call EXCEPT !.pc = "done",
                            !.out = Some(IF f_pc = "raised" THEN None ELSE result)]
    /\ UNCHANGED <<fetchVars, probe, pm_log>>

\* the terms the queries are written from: an empty one, one that is too
\* short once trimmed, and three long ones, one with blanks around it
Terms == {<<>>, <<" ", "x", " ">>, <<"A", "p", "p", "l", "e">>,
          <<"O", "r", "a", "n", "g", "e">>, <<" ", "a", "b", "c", " ">>}

Separators == {SepAnd, SepOr}

\* the queries of n terms, each with the terms it was written from
RECURSIVE QueriesOfLen(_)
QueriesOfLen(n) ==
    IF n = 1 THEN {[parts |-> <<t>>, raw |-> t] : t \in Terms}
    ELSE {[parts |-> Append(q.parts, t), raw |-> q.raw \o sep \o t] :
             q \in QueriesOfLen(n - 1), sep \in Separators, t \in Terms}

Queries == UNION {QueriesOfLen(n) : n \in 1..MaxTerms}

\* a call of search(query) on an idle service with proxying
SearchInit ==
    /\ JobInit
    /\ AudioIdle
    /\ ScrapeIdle
    /\ FetchIdle
    /\ probe = NoProbe
    /\ pm_log = <<>>
    /\ call \in {[pc |-> "idle", op |-> "search", arg |-> q.raw, parts |-> q.parts,
                   sent |-> None, out |-> None] : q \in Queries}

\* the GET outcomes of the search calls: one failure and the success
SearchOutcomes == {"non200", "ok"}

SearchNext ==
    \/ search /\ UNCHANGED <<jobVars, scrapeVars, audioVars>>
    \/ search_returns /\ UNCHANGED <<jobVars, scrapeVars, audioVars>>
    \/ \E p \in {None} \cup {Some(x) : x \in Proxies} : FetchAcquire(p) /\ UNCHANGED <<jobVars, callVars, scrapeVars, audioVars>>
    \/ FetchDirect /\ UNCHANGED <<jobVars, callVars, scrapeVars, audioVars>>
    \/ \E o \in SearchOutcomes, d \in Payloads : FetchGet(o, d) /\ UNCHANGED <<jobVars, callVars, scrapeVars, audioVars>>
    \/ \E deleted \in BOOLEAN : FetchRelease(deleted) /\ UNCHANGED <<jobVars, callVars, scrapeVars, audioVars>>
    \/ FetchSleep /\ UNCHANGED <<jobVars, callVars, scrapeVars, audioVars>>

SearchSpec == SearchInit /\ [][SearchNext]_vars

\* the terms a query was written from that have 3 characters or more once
\* trimmed, in their order
LongParts(parts) ==
    SelectSeq([i \in 1..Len(parts) |-> Strip(parts[i])], LAMBDA t : Len(t) >= 3)

\* C17: a search call whose query has no term of 3 characters or more returns
\* None and nothing else happens: no URL is sent, the fetcher is not entered,
\* no proxy is leased or released, no GET is made and no sleep is taken
C17_ShortQueryFailsFast ==
    (call.op = "search" /\ LongParts(call.parts) = <<>>)
    => /\ call.pc \in {"idle", "done"}
       /\ call.pc = "done" => call.out = Some(None)
       /\ call.sent = None
       /\ f_pc = "idle" /\ attempt = 0 /\ proxy_dict = None
       /\ acquires = <<>> /\ gets = <<>> /\ releases = <<>> /\ sleeps = 0

\* C17 witness: a query of two terms that are too short has been answered
C17_Witness ==
    /\ call.op = "search" /\ call.pc = "done"
    /\ Len(call.parts) = 2
    /\ call.parts[1] = <<" ", "x", " ">>
    /\ LongParts(call.parts) = <<>>

\* the query string the claim describes for a list of terms
RECURSIVE OrList(_)
OrList(ts) ==
    IF Len(ts) = 1 THEN Quoted(ts[1])
    ELSE Quoted(ts[1]) \o SepOr \o OrList(Tail(ts))

\* ("Apple" OR "Orange")
AppleOrOrange ==
    <<"(", "\"", "A", "p", "p", "l", "e", "\"", " ", "O", "R", " ",
      "\"", "O", "r", "a", "n", "g", "e", "\"", ")">>

\* C18: once search has passed its term check, the query it sends is the one
\* long term in quotes or the long terms, quoted, joined by OR in parentheses
\* in their order, and it sends one exactly when there is a long term; the
\* queries Apple AND Orange and Apple OR Orange both give ("Apple" OR "Orange")
C18_QueryFromLongTermsOnly ==
    (call.op = "search" /\ call.pc # "idle")
    => LET long == LongParts(call.parts)
       IN  /\ call.sent = None <=> long = <<>>
           /\ call.sent # None
              => /\ call.sent[1].query =
                       IF Len(long) = 1 THEN Quoted(long[1])
                       ELSE <<"(">> \o OrList(long) \o <<")">>
                 /\ (call.parts = <<<<"A", "p", "p", "l", "e">>,
                                    <<"O", "r", "a", "n", "g", "e">>>>)
                    => call.sent[1].query = AppleOrOrange

\* C18 witness: Apple AND Orange was sent as ("Apple" OR "Orange")
C18_Witness ==
    /\ call.op = "search" /\ call.pc = "done"
    /\ call.arg = <<"A", "p", "p", "l", "e">> \o SepAnd
                  \o <<"O", "r", "a", "n", "g", "e">>
    /\ call.sent # None
    /\ call.sent[1].query = AppleOrOrange

\* ------------------------------------------------- GDELTService.search_news
\* seq[:n]
Take(seq, n) == SubSeq(seq, 1, IF Len(seq) < n THEN Len(seq) ELSE n)

\* a call that returns v, and one that raises exception e
Returns(v) == [raised |-> "none", value |-> v]

Raises(e) == [raised |-> e, value |-> None]

\* the try block of search_news of services/gdelt.py on what search returned:
\* [] for None and for a payload that does not contain 'articles', else the
\* first max_results entries of the article list, as they are.  The test
\* 'articles' in results raises on a number, results['articles'] on a list
\* or a string, the slice on a value that is no list, and article.get on an
\* entry that is no mapping; an entry with title null keeps it
FormatArticles(results, max_results) ==
    IF results = None THEN Returns(Some(<<>>))
    ELSE LET r == results[1]
             head == Take(r.articles, max_results)
         IN  CASE r.kind = "number" -> Raises("TypeError")
               [] r.kind # "number" /\ ~r.has_articles -> Returns(Some(<<>>))
               [] r.kind \in {"sequence", "text", "mapping_no_list"} /\ r.has_articles
                    -> Raises("TypeError")
               [] OTHER ->
                    IF \E i \in 1..Len(head) : head[i].shape = "not_mapping"
                    THEN Raises("AttributeError")
                    ELSE Returns(Some([i \in 1..Len(head) |->
                                         [title |-> head[i].title, url |-> head[i].url]]))

\* the try block of search_news of app/services/gdelt.py on what
\* _make_request returned: [] for None and for a string, else as above,
\* but the entries are formatted one by one inside a try of their own, which
\* skips the entry that raises (no mapping, title null), and only those with
\* a title that is not blank and with a url are kept
AppFormatArticles(results, max_results) ==
    IF results = None THEN Returns(Some(<<>>))
    ELSE LET r == results[1]
             head == SelectSeq(Take(r.articles, max_results),
                               LAMBDA e : e.shape = "mapping")
             formatted == [i \in 1..Len(head) |->
                              [title |-> Strip(head[i].title), url |-> head[i].url]]
         IN  CASE r.kind = "text" -> Returns(Some(<<>>))
               [] r.kind = "number" -> Raises("TypeError")
               [] r.kind \notin {"text", "number"} /\ ~r.has_articles -> Returns(Some(<<>>))
               [] r.kind \in {"sequence", "mapping_no_list"} /\ r.has_articles
                    -> Raises("TypeError")
               [] OTHER ->
                    Returns(Some(SelectSeq(formatted,
                                           LAMBDA a : a.title # <<>> /\ a.url # <<>>)))

\* mutant: the handler catches KeyError only
SearchNewsExcept_KeyError(r) ==
    IF r.raised = "KeyError" THEN Returns(Some(<<>>)) ELSE r

\* except Exception: return [], the handler around the body of search_news
SearchNewsExcept(r) ==
    IF r.raised # "none" THEN Returns(Some(<<>>)) ELSE r

\* the query search_news of app/services/gdelt.py sends for a topic
AppNewsQuery(raw_topic) ==
    LET stripped == Strip(raw_topic)
        topic == IF Len(stripped) < 4
                 THEN stripped \o <<" ", "n", "e", "w", "s">> ELSE stripped
        hyphenated == [i \in 1..Len(topic) |-> IF topic[i] = " " THEN "-" ELSE topic[i]]
    IN  IF \E i \in 1..Len(topic) : topic[i] = " "
        THEN <<"(">> \o Quoted(topic) \o SepOr \o Quoted(hyphenated) \o <<")">>
        ELSE Quoted(topic)

\* search_news of services/gdelt.py up to its await: it hands the topic to
\* search, which returns None at once or sends the provider query
search_news_sends ==
    /\ call.pc = "idle" /\ call.op = "search_news"
    /\ LET terms == SearchTerms(call.arg)
       IN  IF terms = <<>>
           THEN call' = [call EXCEPT !.pc = "done",
                                     !.out = SearchNewsExcept(
                                                FormatArticles(None, call.max_results))]
           ELSE call' = [call EXCEPT !.pc = "fetching",
                                     !.sent = Some([query |-> FormatQuery(terms),
                                                    maxrecords |-> call.max_results * 2])]
    /\ UNCHANGED <<probe, pm_log>>

\* search has returned results
search_news_returns(results) ==
    /\ call.pc = "fetching" /\ call.op = "search_news"
    /\ call' = [call EXCEPT !.pc = "done", !.results = results,
                            !.out = SearchNewsExcept(
                                       FormatArticles(results, call.max_results))]
    /\ UNCHANGED <<probe, pm_log>>

\* search_news of app/services/gdelt.py up to its await of _make_request
app_search_news_sends ==
    /\ call.pc = "idle" /\ call.op = "app_search_news"
    /\ call' = [call EXCEPT !.pc = "fetching",
                            !.sent = Some([query |-> AppNewsQuery(call.arg),
                                           maxrecords |-> call.max_results * 2])]
    /\ UNCHANGED <<probe, pm_log>>

\* _make_request has returned results
app_search_news_returns(results) ==
    /\ call.pc = "fetching" /\ call.op = "app_search_news"
    /\ call' = [call EXCEPT !.pc = "done", !.results = results,
                            !.out = SearchNewsExcept(
                                       AppFormatArticles(results, call.max_results))]
    /\ UNCHANGED <<probe, pm_log>>

\* the topics: a short one, one of 4 characters, one with a blank and one
\* with a line break
Topics == {<<"a", "b">>, <<"a", "b", "c", "d">>, <<"a", "b", " ", "c", "d">>,
           <<"a", "b", "\n", "c", "d">>}

\* the entries of a provider payload: two complete ones, one with a blank
\* title, one without url, one that is no mapping and one with title null
Entries == {[shape |-> "mapping", title |-> <<"t">>, url |-> <<"u">>],
            [shape |-> "mapping", title |-> <<"s">>, url |-> <<"v">>],
            [shape |-> "mapping", title |-> <<" ">>, url |-> <<"u">>],
            [shape |-> "mapping", title |-> <<"t">>, url |-> <<>>],
            [shape |-> "not_mapping", title |-> <<>>, url |-> <<>>],
            [shape |-> "null_title", title |-> <<>>, url |-> <<"u">>]}

\* the parsed bodies that are no mapping with an article list: a list and a
\* string, each with or without 'articles' in it, a number, and a mapping
\* whose 'articles' is no list
OddPayloads ==
    {[kind |-> k, has_articles |-> h, articles |-> <<>>] :
        k \in {"sequence", "text"}, h \in BOOLEAN}
    \cup {[kind |-> "number", has_articles |-> FALSE, articles |-> <<>>],
          [kind |-> "mapping_no_list", has_articles |-> TRUE, articles |-> <<>>]}

\* what the fetcher can return for maxrecords = 2 * max_results: None, a
\* payload without article list, one with up to maxrecords entries, or one
\* of the odd payloads
NewsResults(max_results) ==
    {None, Some([kind |-> "mapping", has_articles |-> FALSE, articles |-> <<>>])}
    \cup {Some([kind |-> "mapping", has_articles |-> TRUE, articles |-> as]) :
             as \in UNION {[1..k -> Entries] : k \in 0..(2 * max_results)}}
    \cup {Some(p) : p \in OddPayloads}

\* a call that has not returned
Pending == [raised |-> "none", value |-> None]

NewsInit ==
    /\ JobInit
    /\ AudioIdle
    /\ ScrapeIdle
    /\ FetchIdle
    /\ probe = NoProbe
    /\ pm_log = <<>>
    /\ call \in {[pc |-> "idle", op |-> o, arg |-> t, max_results |-> n,
                   sent |-> None, results |-> None, out |-> Pending] :
                     o \in {"search_news", "app_search_news"}, t \in Topics,
                     n \in 1..MaxResults}

NewsNext ==
    \/ search_news_sends /\ UNCHANGED <<jobVars, fetchVars, scrapeVars, audioVars>>
    \/ \E results \in NewsResults(call.max_results) :
          search_news_returns(results) /\ UNCHANGED <<jobVars, fetchVars, scrapeVars, audioVars>>
    \/ app_search_news_sends /\ UNCHANGED <<jobVars, fetchVars, scrapeVars, audioVars>>
    \/ \E results \in NewsResults(call.max_results) :
          app_search_news_returns(results) /\ UNCHANGED <<jobVars, fetchVars, scrapeVars, audioVars>>

NewsSpec == NewsInit /\ [][NewsNext]_vars

\* the news calls that are past the building of their query
NewsSent == call.op \in {"search_news", "app_search_news"} /\ call.pc # "idle"

HasWhitespace(topic) == \E i \in 1..Len(topic) : topic[i] \in Whitespace

Hyphenated(topic) == [i \in 1..Len(topic) |-> IF topic[i] = " " THEN "-" ELSE topic[i]]

\* C19: a search_news call sends, for a topic shorter than 4 characters, a
\* query on the topic followed by " news"; for a longer topic with whitespace
\* the query ("topic" OR "hyphenated topic"); for a longer topic without
\* whitespace the quoted topic
C19_NewsQueryShape ==
    NewsSent
    => LET topic == call.arg
       IN  /\ call.sent # None
           /\ Len(topic) < 4
              => Find(call.sent[1].query,
                      Quoted(topic \o <<" ", "n", "e", "w", "s">>)) # 0
           /\ (Len(topic) >= 4 /\ HasWhitespace(topic))
              => call.sent[1].query =
                    <<"(">> \o Quoted(topic) \o SepOr \o Quoted(Hyphenated(topic))
                    \o <<")">>
           /\ (Len(topic) >= 4 /\ ~HasWhitespace(topic))
              => call.sent[1].query = Quoted(topic)

\* an entry with a title that is not blank and with a url
ValidEntry(e) == e.shape = "mapping" /\ Strip(e.title) # <<>> /\ e.url # <<>>

\* C20: a search_news call that got a payload with an article list returns
\* the first max_results of its entries that have a title and a url, in the
\* order of the payload, and nothing else
C20_FirstValidEntries ==
    (NewsSent /\ call.pc = "done" /\ call.results # None
     /\ call.results[1].kind = "mapping" /\ call.results[1].has_articles)
    => LET valid == SelectSeq(call.results[1].articles, ValidEntry)
           expected == Take(valid, call.max_results)
           out == call.out.value[1]
       IN  /\ Len(out) = Len(expected)
           /\ \A i \in 1..Len(out) :
                 /\ Strip(out[i].title) = Strip(expected[i].title)
                 /\ out[i].url = expected[i].url
           /\ Len(valid) >= call.max_results => Len(out) = call.max_results

\* C21: a search_news call never raises and never returns None: whatever the
\* fetcher returned (None, a payload without 'articles', a payload that is
\* no mapping, an article list with a malformed entry) it returns a
\* sequence, and the empty one when the payload has no 'articles'
C21_NewsAlwaysSequence ==
    (NewsSent /\ call.pc = "done")
    => /\ call.out.raised = "none"
       /\ call.out.value # None
       /\ (call.results = None \/ ~call.results[1].has_articles)
          => call.out.value = Some(<<>>)

\* a services call whose article list starts with an entry that is no
\* mapping: article.get raises and the call returns []
C21_Witness ==
    /\ NewsSent /\ call.pc = "done" /\ call.op = "search_news"
    /\ call.results # None
    /\ call.results[1].kind = "mapping"
    /\ Len(call.results[1].articles) > 0
    /\ call.results[1].articles[1].shape = "not_mapping"
    /\ call.out = Returns(Some(<<>>))

\* ------------------------------------------------ GDELTService.get_timeline
\* the value of {} in get_timeline's except clause
EmptyMapping == "{}"

\* the query get_timeline writes: the quoted keywords joined by OR, in
\* parentheses
TimelineQuery(keywords) ==
    <<"(">> \o JoinStr([i \in 1..Len(keywords) |-> Quoted(keywords[i])], SepOr)
    \o <<")">>

\* get_timeline(keywords) up to its await of _make_request; keywords that
\* cannot be iterated raise in the join, and the except clause returns {}
get_timeline ==
    /\ call.pc = "idle" /\ call.op = "get_timeline"
    /\ IF ~call.arg.iterable
       THEN /\ call' = [call EXCEPT !.pc = "done", !.out = Returns(Some(EmptyMapping))]
            /\ UNCHANGED f_pc
       ELSE /\ call' = [call EXCEPT !.pc = "fetching",
                                     !.sent = Some([query |-> TimelineQuery(call.arg.items)])]
            /\ f_pc' = "attempt"
    /\ UNCHANGED <<proxy_enabled, pool, attempt, proxy_dict, acquires, gets, releases,
                   sleeps, result, probe, pm_log>>

\* _make_request is over: get_timeline returns what it returned, or {} from
\* its except clause if it raised
get_timeline_returns ==
    /\ call.pc = "fetching" /\ call.op = "get_timeline"
    /\ f_pc \in {"returned", "raised"}
    /\ call' = [call EXCEPT !.pc = "done",
                            !.out = IF f_pc = "raised" THEN Returns(Some(EmptyMapping))
                                    ELSE Returns(result)]
    /\ UNCHANGED <<fetchVars, probe, pm_log>>

\* the keyword arguments: a value that is no list, one keyword, two keywords
KeywordLists ==
    {[iterable |-> FALSE, items |-> <<>>],
     [iterable |-> TRUE, items |-> <<<<"A", "p", "p", "l", "e">>>>],
     [iterable |-> TRUE, items |-> <<<<"A", "p", "p", "l", "e">>,
                                     <<"O", "r", "a", "n", "g", "e">>>>]}

\* a call of get_timeline(keywords) on an idle service with proxying
TimelineInit ==
    /\ JobInit
    /\ AudioIdle
    /\ ScrapeIdle
    /\ FetchIdle
    /\ probe = NoProbe
    /\ pm_log = <<>>
    /\ call \in {[pc |-> "idle", op |-> "get_timeline", arg |-> ks,
                   sent |-> None, out |-> Pending] : ks \in KeywordLists}

TimelineNext ==
    \/ get_timeline /\ UNCHANGED <<jobVars, scrapeVars, audioVars>>
    \/ get_timeline_returns /\ UNCHANGED <<jobVars, scrapeVars, audioVars>>
    \/ \E p \in {None} \cup {Some(x) : x \in Proxies} : FetchAcquire(p) /\ UNCHANGED <<jobVars, callVars, scrapeVars, audioVars>>
    \/ FetchDirect /\ UNCHANGED <<jobVars, callVars, scrapeVars, audioVars>>
    \/ \E o \in GetOutcomes, d \in Payloads : FetchGet(o, d) /\ UNCHANGED <<jobVars, callVars, scrapeVars, audioVars>>
    \/ \E deleted \in BOOLEAN : FetchRelease(deleted) /\ UNCHANGED <<jobVars, callVars, scrapeVars, audioVars>>
    \/ FetchSleep /\ UNCHANGED <<jobVars, callVars, scrapeVars, audioVars>>

TimelineSpec == TimelineInit /\ [][TimelineNext]_vars

\* C22: a get_timeline call never raises and never returns None: it returns
\* the payload of the attempt that succeeded, and the empty mapping in every
\* other case, also when all attempts of the fetcher failed
C22_TimelineNeverNone ==
    (call.pc = "done" /\ call.op = "get_timeline")
    => /\ call.out.raised = "none"
       /\ call.out.value # None
       /\ \A i \in 1..Len(gets) :
             gets[i].outcome = "ok" => call.out.value = gets[i].payload
       /\ (\A i \in 1..Len(gets) : gets[i].outcome # "ok")
          => call.out.value = Some(EmptyMapping)

\* ------------------------------------------------------------------ Scraper
\* _min_request_interval, in seconds, and in ticks
min_request_interval == 1

MinInterval == min_request_interval * TicksPerSecond

\* max_retries of fetch_content
scrape_max_retries == 3

\* str(e) of the exceptions fetch_content catches
MsgEmptyResponse == "Empty response received"

MsgHttpError == "500, message='Internal Server Error'"

MsgTimeout == ""

MsgConnectionClosed == "Connection closed"

MsgNoSession == "'NoneType' object has no attribute 'get'"

MsgSessionClosed == "Session is closed"

MsgMaxRetries == "Maximum retries exceeded"

\* the record fetch_content returns for text, and the one it returns when
\* every attempt failed
Success(co, text) ==
    [keyword |-> co.keyword, title |-> co.pairs[co.idx].title, content |-> text,
     link |-> co.pairs[co.idx].url, status |-> "success", error |-> None]

Failure(co) ==
    [keyword |-> co.keyword, title |-> co.pairs[co.idx].title, content |-> <<>>,
     link |-> co.pairs[co.idx].url, status |-> "error",
     error |-> IF co.last_error # None THEN co.last_error ELSE Some(MsgMaxRetries)]

\* re.sub('<.*?>', '', text): every shortest "<" ... ">" without a line
\* break in between is removed
RECURSIVE StripTags(_)
StripTags(text) ==
    IF text = <<>> THEN <<>>
    ELSE IF Head(text) # "<" THEN <<Head(text)>> \o StripTags(Tail(text))
    ELSE LET ends == {j \in 2..Len(text) :
                         /\ text[j] = ">"
                         /\ \A i \in 2..(j - 1) : text[i] \notin {">", "\n"}}
         IN  IF ends = {} THEN <<"<">> \o StripTags(Tail(text))
             ELSE StripTags(SubSeq(text, (CHOOSE j \in ends : TRUE) + 1, Len(text)))

\* re.sub('[\n\r\t]+', ' ', text) followed by re.sub('\s+', ' ', text): every
\* run of whitespace becomes one blank
RECURSIVE CollapseWhitespace(_)
CollapseWhitespace(text) ==
    IF text = <<>> THEN <<>>
    ELSE IF Head(text) \in Whitespace
         THEN <<" ">> \o CollapseWhitespace(LStrip(text))
         ELSE <<Head(text)>> \o CollapseWhitespace(Tail(text))

\* clean_text of utils/cleaner.py
clean_text(text) ==
    LET spaced == CollapseWhitespace(StripTags(text))
        quot == ReplaceAll(spaced, <<"&", "q", "u", "o", "t", ";">>, <<"\"">>)
        amp == ReplaceAll(quot, <<"&", "a", "m", "p", ";">>, <<"&">>)
        lt == ReplaceAll(amp, <<"&", "l", "t", ";">>, <<"<">>)
        gt == ReplaceAll(lt, <<"&", "g", "t", ";">>, <<">">>)
    IN  Strip(gt)

\* zip(urls, titles)
Zip(urls, titles) ==
    [i \in 1..(IF Len(urls) < Len(titles) THEN Len(urls) ELSE Len(titles)) |->
        [url |-> urls[i], title |-> titles[i]]]

\* _ensure_session on the scraper of machine state m: a connection is opened
\* if there is none or the current one is closed
ensure_session(m) ==
    IF m.session = None \/ m.sessions[m.session[1]] = "closed"
    THEN [m EXCEPT !.sessions = Append(@, "open"), !.session = Some(Len(m.sessions) + 1)]
    ELSE m

\* close of services/scraper.py: an open connection is closed and forgotten
close(m) ==
    IF m.session # None /\ m.sessions[m.session[1]] = "open"
    THEN [m EXCEPT !.sessions[m.session[1]] = "closed", !.session = None]
    ELSE m

\* a coroutine that has not called the scraper yet.  max_retries is the
\* argument of its fetch_content calls and backoffs the delays, in ticks, of
\* the backoff sleeps of the fetch_content call it is in
NewCoro ==
    [op |-> "none", pc |-> "idle", keyword |-> "topic", pairs |-> <<>>, idx |-> 0,
     attempt |-> 0, last_error |-> None, wait |-> 0, elapsed |-> 0,
     requests |-> <<>>, results |-> <<>>, articles |-> <<>>, prompt |-> None,
     ret |-> Pending, calls |-> 0,
     max_retries |-> scrape_max_retries, backoffs |-> <<>>]

\* the scraper as coroutine c sees it, and the state after c has run up to
\* its next await
Machine(c) ==
    [session |-> session, sessions |-> sessions, since_request |-> since_request,
     since_sent |-> since_sent, co |-> coros[c]]

Commit(c, m) ==
    /\ session' = m.session
    /\ sessions' = m.sessions
    /\ since_request' = m.since_request
    /\ since_sent' = m.since_sent
    /\ coros' = [coros EXCEPT ![c] = m.co]

\* generate_podcast_script once _collect_news_and_content has returned
\* co.articles: ValueError without articles, else the prompt is written from
\* them and handed to text_generator.generate
generate_podcast_script(m) ==
    IF m.co.articles = <<>>
    THEN [m EXCEPT !.co.pc = "done", !.co.ret = Raises("ValueError")]
    ELSE [m EXCEPT !.co.pc = "done", !.co.prompt = Some(m.co.articles),
                   !.co.ret = Returns(Some("script"))]

\* mutant: the backoff grows by one second with every attempt
BackoffDelay_linear(k) == (k + 1) * TicksPerSecond

\* delay = (2 ** attempt) + (random.random() * 0.1) for attempt k, in ticks:
\* the jitter is below a tick
BackoffDelay(k) == (2 ^ k) * TicksPerSecond

RECURSIVE Begin(_), Attempt(_), Get(_), Except(_, _), Return(_, _)

\* fetch_content for the pair at co.idx, up to its first await; the loop
\* over range(max_retries) has no turn for max_retries below 1
Begin(m) ==
    LET entered == ensure_session([m EXCEPT !.co.attempt = 0, !.co.last_error = None,
                                            !.co.requests = <<>>, !.co.backoffs = <<>>])
    IN  IF m.co.max_retries < 1
        THEN Return(entered, Failure(entered.co))
        ELSE Attempt(entered)

\* one turn of the retry loop: _wait_for_rate_limit reads the clock and
\* sleeps for what is left of the interval, or records the reading at once
\* and the request is made
Attempt(m) ==
    IF m.since_request < MinInterval
    THEN [m EXCEPT !.co.pc = "limit_sleep", !.co.wait = MinInterval - m.since_request,
                   !.co.elapsed = 0]
    ELSE Get([m EXCEPT !.since_request = 0])

\* self.session.get(scraper_url): raises without a connection, else the
\* request leaves for the target
Get(m) ==
    IF m.session = None THEN Except(m, MsgNoSession)
    ELSE IF m.sessions[m.session[1]] = "closed" THEN Except(m, MsgSessionClosed)
    ELSE [m EXCEPT !.co.pc = "response",
                   !.co.requests = Append(@, [url |-> m.co.pairs[m.co.idx].url,
                                              attempt |-> m.co.attempt,
                                              session |-> m.session[1],
                                              gap |-> m.since_sent,
                                              failure |-> None]),
                   !.since_sent = 0]

\* the except clauses and the end of the loop body: the error is kept, and
\* the coroutine backs off for 2 ** attempt seconds (and a jitter below a
\* tick) unless this was the last attempt
Except(m, msg) ==
    LET failed == [m EXCEPT !.co.last_error = Some(msg)]
    IN  IF m.co.attempt < m.co.max_retries - 1
        THEN [failed EXCEPT !.co.pc = "backoff",
                            !.co.wait = BackoffDelay(m.co.attempt),
                            !.co.backoffs = Append(@, BackoffDelay(m.co.attempt))]
        ELSE Return(failed, Failure(failed.co))

\* fetch_content returns rec: to the caller, to the loop of fetch_multiple
\* or to the loop of _collect_news_and_content, which run on to their next
\* await or to their end
Return(m, rec) ==
    LET got == [m EXCEPT !.co.results = Append(@, rec)]
    IN  CASE m.co.op = "fetch_content" ->
               [got EXCEPT !.co.pc = "done", !.co.ret = Returns(Some(rec))]
          [] m.co.op = "fetch_multiple" ->
               IF m.co.idx < Len(m.co.pairs)
               THEN Begin([got EXCEPT !.co.idx = @ + 1])
               ELSE [close(got) EXCEPT !.co.pc = "done",
                                       !.co.ret = Returns(Some(got.co.results))]
          [] OTHER ->
               LET kept == IF rec.content # <<>>
                           THEN [got EXCEPT !.co.articles =
                                    Append(@, [title |-> rec.title,
                                               content |-> clean_text(rec.content),
                                               link |-> rec.link])]
                           ELSE got
               IN  IF m.co.idx < Len(m.co.pairs)
                   THEN Begin([kept EXCEPT !.co.idx = @ + 1])
                   ELSE generate_podcast_script(close(kept))

\* a coroutine that may make a call
Callable(c) == coros[c].pc \in {"idle", "done"} /\ coros[c].calls < MaxCalls

Call(c, op, pairs) ==
    [Machine(c) EXCEPT !.co = [NewCoro EXCEPT !.op = op, !.pc = "running",
                                              !.pairs = pairs, !.idx = 1,
                                              !.calls = coros[c].calls + 1]]

\* fetch_content(url, keyword, title, max_retries = retries), up to its
\* first await
fetch_content(c, pair, retries) ==
    /\ Callable(c)
    /\ Commit(c, Begin([Call(c, "fetch_content", <<pair>>) EXCEPT
                            !.co.max_retries = retries]))

\* mutant: the connection is closed at the end of the loop only, not in a
\* finally clause
fetch_multiple_no_finally(c, urls, titles, zippable) ==
    /\ Callable(c)
    /\ LET m == Call(c, "fetch_multiple", IF zippable THEN Zip(urls, titles) ELSE <<>>)
       IN  Commit(c, IF ~zippable
                     THEN [m EXCEPT !.co.pc = "done", !.co.ret = Raises("TypeError")]
                     ELSE IF m.co.pairs = <<>>
                     THEN [close(m) EXCEPT !.co.pc = "done", !.co.ret = Returns(Some(<<>>))]
                     ELSE Begin(m))

\* fetch_multiple(urls, keyword, titles), up to its first await: zip raises
\* for titles that cannot be iterated, and the finally clause closes the
\* connection on every way out
fetch_multiple(c, urls, titles, zippable) ==
    /\ Callable(c)
    /\ LET m == Call(c, "fetch_multiple", IF zippable THEN Zip(urls, titles) ELSE <<>>)
       IN  Commit(c, IF ~zippable
                     THEN [close(m) EXCEPT !.co.pc = "done", !.co.ret = Raises("TypeError")]
                     ELSE IF m.co.pairs = <<>>
                     THEN [close(m) EXCEPT !.co.pc = "done", !.co.ret = Returns(Some(<<>>))]
                     ELSE Begin(m))

\* generate_podcast_script from the return of search_news with news_articles
\* to the first await of the scraping that _collect_news_and_content does
collect_news_and_content(c, news_articles) ==
    /\ Callable(c)
    /\ LET m == Call(c, "collect", news_articles)
       IN  Commit(c, IF news_articles = <<>> THEN generate_podcast_script(close(m))
                     ELSE Begin(m))

\* the sleep of _wait_for_rate_limit is over: the clock reading made before
\* the sleep is recorded and the request is made
Wake(c) ==
    /\ coros[c].pc = "limit_sleep" /\ coros[c].wait = 0
    /\ Commit(c, Get([Machine(c) EXCEPT !.since_request = coros[c].elapsed]))

\* the failure of the pending request that str(e) = msg describes
Failed(m, msg) ==
    Except([m EXCEPT !.co.requests[Len(m.co.requests)].failure = Some(msg)], msg)

\* the target's answer to the pending request arrives: a connection closed
\* meanwhile may break it, status 500 and a timeout raise, a blank body
\* raises ValueError and any other body is returned
Respond(c, answer) ==
    /\ coros[c].pc = "response"
    /\ answer.kind = "closed"
       => sessions[coros[c].requests[Len(coros[c].requests)].session] = "closed"
    /\ LET m == Machine(c)
       IN  Commit(c, CASE answer.kind = "closed" -> Failed(m, MsgConnectionClosed)
                       [] answer.kind = "http_error" -> Failed(m, MsgHttpError)
                       [] answer.kind = "timeout" -> Failed(m, MsgTimeout)
                       [] OTHER -> IF Strip(answer.body) = <<>>
                                   THEN Failed(m, MsgEmptyResponse)
                                   ELSE Return(m, Success(m.co, answer.body)))

\* the backoff sleep is over: the connection is closed and the loop goes to
\* its next attempt
Retry(c) ==
    /\ coros[c].pc = "backoff" /\ coros[c].wait = 0
    /\ Commit(c, Attempt(close([Machine(c) EXCEPT !.co.attempt = @ + 1])))

\* saturating clock
Later(t) == IF t < MinInterval THEN t + 1 ELSE t

\* one tick of the event loop's clock passes
Tick ==
    /\ \/ since_request < MinInterval
       \/ since_sent < MinInterval
       \/ \E c \in 1..Len(coros) : coros[c].wait > 0
    /\ since_request' = Later(since_request)
    /\ since_sent' = Later(since_sent)
    /\ coros' = [c \in 1..Len(coros) |->
                    [coros[c] EXCEPT !.wait = IF @ > 0 THEN @ - 1 ELSE 0,
                                     !.elapsed = IF coros[c].pc = "limit_sleep"
                                                 THEN Later(@) ELSE @]]
    /\ UNCHANGED <<session, sessions>>

\* the urls and titles of the calls, and the bodies of the answers: an
\* empty one, a blank one, a text and a lone tag
Urls == <<"u1", "u2", "u3">>

Titles == <<"t1", "t2", "t3">>

Bodies == {<<>>, <<" ">>, <<"h", "i">>, <<"<", "b", ">">>}

Answers ==
    {[kind |-> "ok", body |-> b] : b \in Bodies}
    \cup {[kind |-> k, body |-> <<>>] : k \in {"http_error", "timeout", "closed"}}

\* the first n of seq, for every n up to MaxPairs
Prefixes(seq) == {Take(seq, n) : n \in 0..MaxPairs}

\* one coroutine on a scraper that was not used in the last second
ScrapeInit ==
    /\ JobInit
    /\ AudioIdle
    /\ FetchIdle
    /\ CallIdle
    /\ session = None
    /\ sessions = <<>>
    /\ since_request = MinInterval
    /\ since_sent = MinInterval
    /\ coros = <<NewCoro>>

ScrapeNext ==
    \/ \E c \in 1..Len(coros), i \in 1..MaxPairs :
          fetch_content(c, [url |-> Urls[i], title |-> Titles[i]], scrape_max_retries)
          /\ UNCHANGED <<jobVars, fetchVars, callVars, audioVars>>
    \/ \E c \in 1..Len(coros), urls \in Prefixes(Urls), titles \in Prefixes(Titles),
          zippable \in BOOLEAN :
          fetch_multiple(c, urls, titles, zippable)
          /\ UNCHANGED <<jobVars, fetchVars, callVars, audioVars>>
    \/ \E c \in 1..Len(coros), urls \in Prefixes(Urls) :
          collect_news_and_content(c, Zip(urls, Titles))
          /\ UNCHANGED <<jobVars, fetchVars, callVars, audioVars>>
    \/ \E c \in 1..Len(coros) : Wake(c) /\ UNCHANGED <<jobVars, fetchVars, callVars, audioVars>>
    \/ \E c \in 1..Len(coros), answer \in Answers :
          Respond(c, answer) /\ UNCHANGED <<jobVars, fetchVars, callVars, audioVars>>
    \/ \E c \in 1..Len(coros) : Retry(c) /\ UNCHANGED <<jobVars, fetchVars, callVars, audioVars>>
    \/ Tick /\ UNCHANGED <<jobVars, fetchVars, callVars, audioVars>>

ScrapeSpec == ScrapeInit /\ [][ScrapeNext]_vars

\* C23: every request a scraper sends leaves at least the minimum interval
\* (1 second) after the request it sent before
C23_RequestsSpaced ==
    \A c \in 1..Len(coros) :
       \A i \in 1..Len(coros[c].requests) : coros[c].requests[i].gap >= MinInterval

\* C24: every attempt of fetch_content sends a request to the target, each
\* on a connection of its own: after a failed attempt that is not the last
\* the request is sent again on a fresh connection, so a call that ends in
\* an error has sent max_retries requests
C24_RetryOnFreshConnection ==
    \A c \in 1..Len(coros) :
       LET co == coros[c]
       IN  /\ co.pc \in {"response", "backoff"}
              => /\ Len(co.requests) = co.attempt + 1
                 /\ \A i, j \in 1..Len(co.requests) :
                       i # j => co.requests[i].session # co.requests[j].session
           /\ (co.pc = "done" /\ co.results # <<>>
               /\ co.results[Len(co.results)].status = "error")
              => Len(co.requests) = co.max_retries

\* C25: a fetch_content call does not raise; a record with status error has
\* empty content, the url, title and keyword of the call and the message of
\* the last request to the target that failed; a record with status success
\* has content that is not empty
C25_ErrorRecordOfLastFailure ==
    \A c \in 1..Len(coros) :
       LET co == coros[c]
           rec == co.results[Len(co.results)]
       IN  (co.pc = "done" /\ co.results # <<>>)
           => /\ co.op = "fetch_content" => co.ret = Returns(Some(rec))
              /\ rec.keyword = co.keyword
              /\ rec.title = co.pairs[co.idx].title
              /\ rec.link = co.pairs[co.idx].url
              /\ rec.status = "success" => rec.content # <<>> /\ rec.error = None
              /\ rec.status = "error"
                 => /\ rec.content = <<>>
                    /\ co.requests # <<>>
                    /\ rec.error = co.requests[Len(co.requests)].failure
                    /\ rec.error # None

\* C26: fetch_multiple fetches the pairs of zip(urls, titles) one after the
\* other: the fetch of pair i+1 starts when pair i has its record, record i
\* is the one of url i and title i, the call returns one record per pair,
\* and whether it returns or raises the connection is closed at its end
C26_OneRecordPerPairInOrder ==
    \A c \in 1..Len(coros) :
       LET co == coros[c]
       IN  co.op = "fetch_multiple"
           => /\ \A i \in 1..Len(co.results) :
                    /\ co.results[i].link = co.pairs[i].url
                    /\ co.results[i].title = co.pairs[i].title
              /\ co.pc # "done"
                 => /\ Len(co.results) = co.idx - 1
                    /\ \A i \in 1..Len(co.requests) :
                          co.requests[i].url = co.pairs[co.idx].url
              /\ co.pc = "done"
                 => /\ co.ret.raised = "none"
                       => /\ co.ret.value = Some(co.results)
                          /\ Len(co.results) = Len(co.pairs)
                    /\ session = None
                    /\ \A i \in 1..Len(sessions) : sessions[i] = "closed"

\* a call that has returned the records of two pairs, the first a failure
\* and the second a success
C26_Witness ==
    \E c \in 1..Len(coros) :
       /\ coros[c].op = "fetch_multiple" /\ coros[c].pc = "done"
       /\ Len(coros[c].pairs) = 2
       /\ coros[c].ret = Returns(Some(coros[c].results))
       /\ coros[c].results[1].status = "error"
       /\ coros[c].results[2].status = "success"
       /\ Len(sessions) = 2

\* C27: the text generator is called only with articles that have content:
\* every article of the prompt is the cleaned body of a scrape of its link
\* that succeeded, and its content, as the prompt shows it, is not empty
C27_PromptArticlesHaveContent ==
    \A c \in 1..Len(coros) :
       LET co == coros[c]
       IN  (co.op = "collect" /\ co.prompt # None)
           => /\ co.prompt[1] # <<>>
              /\ \A i \in 1..Len(co.prompt[1]) :
                    LET article == co.prompt[1][i]
                    IN  /\ article.content # <<>>
                        /\ \E j \in 1..Len(co.results) :
                              /\ co.results[j].status = "success"
                              /\ co.results[j].link = article.link
                              /\ clean_text(co.results[j].content) = article.content

\* ------------------------------------------- two jobs on one PodcastGenerator
\* the answers of the targets of two concurrent jobs
ShareAnswers ==
    {[kind |-> "ok", body |-> <<"h", "i">>]}
    \cup {[kind |-> k, body |-> <<>>] : k \in {"http_error", "closed"}}

\* two background tasks that use the scraper of the module-level
\* podcast_generator of app/routers/podcast.py
ShareInit ==
    /\ JobInit
    /\ AudioIdle
    /\ FetchIdle
    /\ CallIdle
    /\ session = None
    /\ sessions = <<>>
    /\ since_request = MinInterval
    /\ since_sent = MinInterval
    /\ coros = <<NewCoro, NewCoro>>

\* a background task calls generate_podcast_script once
ShareNext ==
    \/ \E c \in 1..Len(coros), urls \in Prefixes(Urls) :
          /\ coros[c].calls = 0
          /\ collect_news_and_content(c, Zip(urls, Titles))
          /\ UNCHANGED <<jobVars, fetchVars, callVars, audioVars>>
    \/ \E c \in 1..Len(coros) : Wake(c) /\ UNCHANGED <<jobVars, fetchVars, callVars, audioVars>>
    \/ \E c \in 1..Len(coros), answer \in ShareAnswers :
          Respond(c, answer) /\ UNCHANGED <<jobVars, fetchVars, callVars, audioVars>>
    \/ \E c \in 1..Len(coros) : Retry(c) /\ UNCHANGED <<jobVars, fetchVars, callVars, audioVars>>
    \/ Tick /\ UNCHANGED <<jobVars, fetchVars, callVars, audioVars>>

ShareSpec == ShareInit /\ [][ShareNext]_vars

\* C28: no step of a job takes away the connection another job's request
\* depends on: a request that awaits its answer has its connection open,
\* and a first attempt that waits in the rate limiter still has the
\* connection fetch_content ensured for it
C28_JobsKeepTheirConnection ==
    \A c \in 1..Len(coros) :
       LET co == coros[c]
       IN  /\ co.pc = "response"
              => sessions[co.requests[Len(co.requests)].session] = "open"
           /\ (co.pc = "limit_sleep" /\ co.attempt = 0)
              => session # None /\ sessions[session[1]] = "open"

\* ------------------------------------------------- the ids of two submits
\* the keywords of two submits: some that differ in case or in punctuation
\* only, one with an underscore and digits like the timestamp's, and others
IdKeywords ==
    {<<"B">>, <<"b">>, <<"b", "!">>, <<"b", "?">>, <<"b", "_">>, <<"b", "_", "2", "_", "0">>,
     <<"c">>, <<"b", "b">>}

\* the ids generate_podcast derives for the two submits
two_submits ==
    /\ call.pc = "idle" /\ call.op = "two_submits"
    /\ call' = [call EXCEPT !.pc = "done",
                            !.ids = <<RequestId(call.a.keyword, call.a.clock),
                                      RequestId(call.b.keyword, call.b.clock)>>]
    /\ UNCHANGED <<probe, pm_log>>

\* two submits, each with its keyword and the second the clock shows
IdInit ==
    /\ JobInit
    /\ AudioIdle
    /\ ScrapeIdle
    /\ FetchIdle
    /\ probe = NoProbe
    /\ pm_log = <<>>
    /\ call \in {[pc |-> "idle", op |-> "two_submits", a |-> a, b |-> b, ids |-> <<>>] :
                   a, b \in [keyword : IdKeywords, clock : 0..MaxTime]}

IdNext == two_submits /\ UNCHANGED <<jobVars, fetchVars, scrapeVars, audioVars>>

IdSpec == IdInit /\ [][IdNext]_vars

\* C29: two submits get the same id exactly if their keywords are equal once
\* lower-cased with every character that is no letter or digit replaced by
\* an underscore, and both fall in the same second
C29_SameIdIffSameKeywordAndSecond ==
    (call.op = "two_submits" /\ call.pc = "done")
    => LET ka == call.a.keyword
           kb == call.b.keyword
           same_sanitized ==
               /\ Len(ka) = Len(kb)
               /\ \A i \in 1..Len(ka) :
                     IF IsAlnum(ka[i]) \/ IsAlnum(kb[i])
                     THEN lower(ka[i]) = lower(kb[i])
                     ELSE TRUE
       IN  (call.ids[1] = call.ids[2]) <=> (same_sanitized /\ call.a.clock = call.b.clock)

\* submits of "b!" and "B?" in the same second, with the same id
C29_Witness ==
    /\ call.op = "two_submits" /\ call.pc = "done"
    /\ call.a.keyword = <<"b", "!">> /\ call.b.keyword = <<"b", "?">>
    /\ call.a.clock = call.b.clock
    /\ call.ids[1] = call.ids[2]

\* ------------------------------------------------- the jobs run to their end
\* the steps of background task i; the wall clock enters no guard of the
\* pipeline, so its reading is held where it is
BackgroundStep(i) ==
    /\ i <= Len(tasks)
    /\ \/ \E found \in BOOLEAN : BgStart(i, found)
       \/ \E cause \in SynthesisFailures : ScriptFails(i, cause)
       \/ \E raw \in Scripts, ctor \in BOOLEAN : ScriptReady(i, raw, now, ctor)
       \/ \E ok \in BOOLEAN : TtsReturn(i, ok)
    /\ UNCHANGED <<fetchVars, callVars, scrapeVars, audioVars>>

LiveNext ==
    \/ \E k \in Keywords :
          generate_podcast(k, now) /\ UNCHANGED <<fetchVars, callVars, scrapeVars, audioVars>>
    \/ \E i \in 1..MaxSubmits : BackgroundStep(i)

\* the event loop runs every background task whose awaited call has returned
\* or raised, and every external call does one or the other
JobLive == Init /\ [][LiveNext]_vars /\ \A i \in 1..MaxSubmits : WF_vars(BackgroundStep(i))

\* C30: every submitted job is finished in the end, its task over and its
\* status success or error
C30_EveryJobFinishes ==
    \A i \in 1..MaxSubmits :
       (Len(tasks) >= i)
       ~> (/\ Len(tasks) >= i
           /\ tasks[i].pc = "done"
           /\ podcast_status[tasks[i].request_id] \in {"success", "error"})

\* a job whose task is over after a TTS call, with status success
C30_Witness ==
    \E i \in 1..Len(tasks) :
       /\ tasks[i].pc = "done" /\ tasks[i].tts = "ok"
       /\ podcast_status[tasks[i].request_id] = "success"

\* ------------------------------------------------ claims on the job pipeline
\* the raw scripts that the post-processing changes
Uncleaned == {raw \in Scripts : cleaned_scripts[raw] # raw}

\* C31: every background task calls the script synthesizer once (it has
\* called it as soon as it has started, and never calls it again) and the TTS
\* at most once, a finished task takes no further step, and the step that
\* calls the TTS has stored the cleaned script and the status success and
\* hands that cleaned script, not the raw one, to the TTS
C31_OneSynthesisOneTtsOnCleanedScript ==
    [][\A i \in 1..Len(tasks') :
          LET t == tasks'[i]
              id == t.request_id
              old == IF i <= Len(tasks) THEN tasks[i] ELSE NewTask(t.keyword, id)
          IN  /\ t.synth <= 1
              /\ t.ttsCalls <= 1
              /\ t.pc # "scheduled" => t.synth = 1
              /\ old.pc = "done" => t = old
              /\ t.ttsCalls > old.ttsCalls
                 => /\ old.pc = "search"
                    /\ podcast_status'[id] = "success"
                    /\ podcast_content'[id] = t.script
                    /\ t.script \in {cleaned_scripts[raw] : raw \in Scripts \ {<<>>}}
                    /\ t.script \notin Uncleaned]_vars

\* C31 witness: a task that called the synthesizer once and the TTS once is
\* done, and its job holds the cleaned form of a script the cleaning changed
C31_Witness ==
    \E i \in 1..Len(tasks), raw \in Uncleaned :
       /\ tasks[i].pc = "done"
       /\ tasks[i].synth = 1 /\ tasks[i].ttsCalls = 1
       /\ cleaned_scripts[raw] # <<>>
       /\ podcast_content[tasks[i].request_id] = cleaned_scripts[raw]
       /\ podcast_audio[tasks[i].request_id] # None

\* ------------------------------------------- fetch_content with max_retries
\* one coroutine that calls fetch_content with any max_retries, from none
\* to MaxRetriesArg, on a scraper that was not used in the last second
RetryInit == ScrapeInit

RetryNext ==
    \/ \E c \in 1..Len(coros), i \in 1..MaxPairs, retries \in 0..MaxRetriesArg :
          fetch_content(c, [url |-> Urls[i], title |-> Titles[i]], retries)
          /\ UNCHANGED <<jobVars, fetchVars, callVars, audioVars>>
    \/ \E c \in 1..Len(coros) : Wake(c) /\ UNCHANGED <<jobVars, fetchVars, callVars, audioVars>>
    \/ \E c \in 1..Len(coros), answer \in Answers :
          Respond(c, answer) /\ UNCHANGED <<jobVars, fetchVars, callVars, audioVars>>
    \/ \E c \in 1..Len(coros) : Retry(c) /\ UNCHANGED <<jobVars, fetchVars, callVars, audioVars>>
    \/ Tick /\ UNCHANGED <<jobVars, fetchVars, callVars, audioVars>>

RetrySpec == RetryInit /\ [][RetryNext]_vars

\* C32: a fetch_content call makes at most max_retries attempts and sends at
\* most that many requests; an answer with a blank body is a failed attempt
\* like any other (a record with status success has a body that is not
\* blank); the failed attempt k (from 0) that is not the last is followed by
\* one sleep whose whole seconds are 2^k, the last failed attempt by none;
\* and with max_retries = 0 the call sends nothing and returns status error
C32_BoundedAttemptsExponentialBackoff ==
    \A c \in 1..Len(coros) :
       LET co == coros[c]
           rec == co.results[Len(co.results)]
       IN  co.op = "fetch_content"
           => /\ Len(co.requests) <= co.max_retries
              /\ co.max_retries > 0 => co.attempt < co.max_retries
              /\ \A j \in 1..Len(co.backoffs) :
                    co.backoffs[j] \div TicksPerSecond = 2 ^ (j - 1)
              /\ Len(co.backoffs) = IF co.pc = "backoff" THEN co.attempt + 1
                                    ELSE co.attempt
              /\ co.pc = "backoff" => co.attempt < co.max_retries - 1
              /\ \A j \in 1..Len(co.requests) :
                    co.requests[j].failure = Some(MsgEmptyResponse)
                    => \/ co.attempt > co.requests[j].attempt
                       \/ co.pc = "backoff"
                       \/ co.pc = "done" /\ rec.status = "error"
              /\ co.pc = "done"
                 => /\ rec.status = "success" => Strip(rec.content) # <<>>
                    /\ (rec.status = "error" /\ co.max_retries > 0)
                       => /\ co.attempt = co.max_retries - 1
                          /\ Len(co.backoffs) = co.max_retries - 1
                    /\ co.max_retries = 0
                       => /\ co.requests = <<>>
                          /\ co.backoffs = <<>>
                          /\ rec.status = "error"
                          /\ co.ret = Returns(Some(rec))

\* C32 witness: a call with max_retries = 3 whose first answer had a blank
\* body has slept 1 and 2 seconds and returned status error, and a call
\* with max_retries = 0 has returned
C32_Witness ==
    \E c \in 1..Len(coros) :
       LET co == coros[c]
       IN  /\ co.op = "fetch_content" /\ co.pc = "done"
           /\ co.max_retries = 3
           /\ co.requests # <<>>
           /\ co.requests[1].failure = Some(MsgEmptyResponse)
           /\ co.backoffs = <<TicksPerSecond, 2 * TicksPerSecond>>
           /\ co.results[1].status = "error"

\* a call with max_retries = 0 has returned status error without a request
C32_ZeroRetriesReturns ==
    \E c \in 1..Len(coros) :
       /\ coros[c].op = "fetch_content" /\ coros[c].pc = "done"
       /\ coros[c].max_retries = 0
       /\ coros[c].results[1].status = "error"

\* --------------------------------------------- the query of get_timeline
\* C33: the query get_timeline sends for a list of keywords is the query
\* search builds from these keywords joined by OR: one keyword goes out as
\* the bare quoted term, several as the OR-list in parentheses
C33_TimelineQueryAsSearch ==
    (call.op = "get_timeline" /\ call.sent # None)
    => call.sent[1].query = FormatQuery(SearchTerms(JoinStr(call.arg.items, SepOr)))

\* ------------------------------------------------- snapshots of a job
\* C34: once getStatus answers success or error for a job, it gives the
\* same snapshot ever after: script, audio url, duration and error of a
\* job with a terminal status do not change.  Stated for the jobs whose id
\* one submit call issued, so that no other job writes the record
C34_TerminalSnapshotIsFinal ==
    [][\A id \in DOMAIN podcast_status :
          (/\ Cardinality(TasksOf(id)) = 1
           /\ Len(tasks') = Len(tasks)
           /\ get_podcast_status(id).status \in {"success", "error"})
          => get_podcast_status(id)' = get_podcast_status(id)]_vars

\* ------------------------------------------------- the audio file of a job
\* language_code of the request, by default and as a caller may set it: the
\* router hands it to text_to_speech
LanguageCodes == {<<"e", "n", "-", "G", "B">>, <<"f", "r">>}

\* the file synthesize_speech writes in the output directory:
\* f"tts_{language_code}_{timestamp}.mp3"
TtsFile(language_code, t) ==
    <<"t", "t", "s", "_">> \o language_code \o <<"_">> \o Timestamp(t)
    \o <<".", "m", "p", "3">>

\* tts_service.text_to_speech(text, output_path, language_code) is over.  It
\* takes the directory of output_path and calls synthesize_speech, which on
\* an answer of the TTS API reads the clock and writes the audio to a file it
\* names itself; the router then stores the name it chose before the call.
\* ok: the API answered with audio and the file could be written
synthesize_speech(i, ok, language_code, clock) ==
    /\ tasks[i].pc = "tts"
    /\ clock \in now..MaxTime
    /\ LET t == tasks[i]
           id == t.request_id
           over == [t EXCEPT !.pc = "done", !.script = <<>>, !.audio_filename = <<>>]
       IN  IF ok
           THEN /\ output_dir' = output_dir \cup {TtsFile(language_code, clock)}
                /\ podcast_audio' = Put(podcast_audio, id,
                                        Some(AudioInfo(t.audio_filename, t.script)))
                /\ UNCHANGED <<podcast_status, podcast_content, podcast_errors>>
                /\ ClockStep(i, [over EXCEPT !.tts = "ok"], clock)
           ELSE /\ podcast_errors' = Put(podcast_errors, id, Some(MsgTts))
                /\ UNCHANGED <<podcast_status, podcast_content, podcast_audio, output_dir>>
                /\ PipelineStep(i, [over EXCEPT !.tts = "raised"])

AudioNext ==
    \/ \E k \in Keywords, clock \in 0..MaxTime :
          generate_podcast(k, clock) /\ UNCHANGED <<fetchVars, callVars, scrapeVars, audioVars>>
    \/ \E i \in 1..Len(tasks), found \in BOOLEAN :
          BgStart(i, found) /\ UNCHANGED <<fetchVars, callVars, scrapeVars, audioVars>>
    \/ \E i \in 1..Len(tasks), cause \in SynthesisFailures :
          ScriptFails(i, cause) /\ UNCHANGED <<fetchVars, callVars, scrapeVars, audioVars>>
    \/ \E i \in 1..Len(tasks), raw \in Scripts, clock \in 0..MaxTime, ctor \in BOOLEAN :
          ScriptReady(i, raw, clock, ctor) /\ UNCHANGED <<fetchVars, callVars, scrapeVars, audioVars>>
    \/ \E i \in 1..Len(tasks), ok \in BOOLEAN, language_code \in LanguageCodes,
          clock \in 0..MaxTime :
          synthesize_speech(i, ok, language_code, clock)
          /\ UNCHANGED <<fetchVars, callVars, scrapeVars>>

AudioSpec == Init /\ [][AudioNext]_vars

\* C35: the file that the audio reference of a job names is in the output
\* directory: the TTS step wrote it
C35_AudioRefNamesWrittenFile ==
    \A id \in DOMAIN podcast_audio :
       podcast_audio[id] # None => podcast_audio[id][1].filename \in output_dir

\* C36: a job with status success has a stored script that is not empty,
\* and so has the task that awaits the TTS call
C36_SuccessHasScript ==
    /\ \A id \in DOMAIN podcast_status :
          podcast_status[id] = "success" => podcast_content[id] # <<>>
    /\ \A i \in 1..Len(tasks) : tasks[i].pc = "tts" => tasks[i].script # <<>>

\* C37: for a job whose id one submit call issued, every snapshot getStatus
\* can return is consistent: processing comes with an empty script, no audio
\* and no error; audio comes with status success and no error; status error
\* comes with no audio and an error
C37_SnapshotConsistent ==
    \A id \in DOMAIN podcast_status :
       Cardinality(TasksOf(id)) = 1
       => LET snap == get_podcast_status(id)
          IN  /\ snap.status = "processing"
                 => snap.content = <<>> /\ snap.audio_url = None /\ snap.error = None
              /\ snap.audio_url # None
                 => snap.status = "success" /\ snap.error = None
              /\ snap.status = "error"
                 => snap.audio_url = None /\ snap.error # None

\* C37 witness: of two jobs with ids of their own one has audio and the
\* other is in error
C37_Witness ==
    \E id1, id2 \in DOMAIN podcast_status :
       /\ id1 # id2
       /\ Cardinality(TasksOf(id1)) = 1 /\ Cardinality(TasksOf(id2)) = 1
       /\ get_podcast_status(id1).audio_url # None
       /\ get_podcast_status(id1).status = "success"
       /\ get_podcast_status(id2).status = "error"
       /\ get_podcast_status(id2).error # None

\* C38: no snapshot shows a raw script: a script that is not empty is a
\* cleaned script in every state, and the script of a job with status
\* success does not change
C38_OnlyCleanedScriptVisible ==
    [][\A id \in DOMAIN podcast_status :
          LET snap == get_podcast_status(id)
          IN  /\ snap.content # <<>>
                 => /\ snap.content \in {cleaned_scripts[raw] : raw \in Scripts}
                    /\ snap.content \notin Uncleaned
              /\ snap.status = "success" => snap'.content = snap.content]_vars

\* ------------------------------------ the two search_news implementations
\* C39: search_news of services/gdelt.py and search_news of
\* app/services/gdelt.py are equivalent: the query a call of the one sends
\* for a topic is the query the other builds for it, and what it returns
\* from the fetcher's result is what the other returns from that result
C39_NewsImplementationsAgree ==
    NewsSent
    => LET terms == SearchTerms(call.arg)
           own == call.op = "search_news"
           other_query == IF own THEN Some(AppNewsQuery(call.arg))
                          ELSE IF terms = <<>> THEN None
                          ELSE Some(FormatQuery(terms))
           other_out == IF own
                        THEN SearchNewsExcept(AppFormatArticles(call.results,
                                                                call.max_results))
                        ELSE SearchNewsExcept(FormatArticles(call.results,
                                                             call.max_results))
       IN  /\ call.sent = None <=> other_query = None
           /\ call.sent # None /\ other_query # None
              => call.sent[1].query = other_query[1]
           /\ call.pc = "done" => call.out = other_out

====
